---------------------------- MODULE Spec2Model ----------------------------
(***************************************************************************)
(* Git Wrapped: the /api/stats request handler and the aggregation it      *)
(* performs over GitHub data.                                              *)
(*                                                                         *)
(* Two revisions of the route are modelled:                                *)
(*   "full"        src/src/app/api/stats/route.ts  (one request returns    *)
(*                 every statistic and the three leaderboards)             *)
(*   "progressive" src/unnamed/part_002            (loadType selects the   *)
(*                 part of the statistics to return)                       *)
(* A request is a small state machine: each await of the handler is a      *)
(* step, the fetches of a Promise.all complete in any order.               *)
(***************************************************************************)
EXTENDS Integers, Sequences, FiniteSets, Bags, TLC

VARIABLES
    ghUsers,            \* GitHub: login -> the data GitHub holds for that user
    ghFollowers,        \* GitHub: the followers of the queried user, in GitHub's order
    ghFollowing,        \* GitHub: the users the queried user follows, in GitHub's order
    request,            \* the request of the invocation that runs: [revision, username, loadType, page]
    pc,                 \* its position in the handler
    userData,           \* result of the main GraphQL query (Absent until fetched)
    followersResponse,  \* result slot of listFollowersForUser
    followingResponse,  \* result slot of listFollowingForUser
    networkLogins,      \* logins whose data is fetched concurrently
    networkUsersData,   \* Promise.all result slots, one per element of networkLogins
    fetchLog,           \* history: the fetches settled so far, [kind, index, ok, message], in order
    response,           \* the HTTP response (status 0 while none was sent)
    reposResponse,      \* result slot of repos.listForUser
    repoStats,          \* Promise.all result slots, one per listed repository
    networkFulfilled,   \* how many promises of the per-login Promise.all have fulfilled
    served,             \* the other invocations of GET on this server, each with its bindings
    arrivedDuring,      \* history: the invocations unanswered when the current one arrived
    leaderboardsPage,   \* the state of the leaderboards page in the browser
    homePage,           \* the state of the home page in the browser
    repositoriesPage,   \* the state of the repositories page in the browser
    progressiveHome,    \* the state of the home page with the repository list
    hostTimeZone        \* the server host's time zone (the TZ of the process)

vars == <<ghUsers, ghFollowers, ghFollowing, request, pc, userData,
          followersResponse, followingResponse, networkLogins,
          networkUsersData, fetchLog, response, reposResponse, repoStats,
          networkFulfilled, served, arrivedDuring, leaderboardsPage,
          homePage, repositoriesPage, progressiveHome, hostTimeZone>>

\* What no step of a request handler touches
rest == <<served, arrivedDuring, leaderboardsPage, homePage,
          repositoriesPage, progressiveHome, hostTimeZone>>

\* What the steps before and after the per-login queries leave alone
pages == <<rest, networkFulfilled>>

\* What the handlers of the network and contribution loads leave alone
others == <<reposResponse, repoStats, pages>>

---------------------------------------------------------------------------
(* Bounds of the model *)

MaxDays == 3        \* contribution days GitHub returns for the queried user
MaxRepos == 4       \* repositories GitHub returns for the queried user
MaxFollow == 2      \* length of the follower list and of the following list

---------------------------------------------------------------------------
(* Generic sequence helpers *)

Max(a, b) == IF a >= b THEN a ELSE b

Range(s) == {s[i] : i \in 1..Len(s)}

Front(s) == SubSeq(s, 1, Len(s) - 1)

Last(s) == s[Len(s)]

Take(s, n) == SubSeq(s, 1, IF Len(s) < n THEN Len(s) ELSE n)

RECURSIVE FlatMap(_)
FlatMap(ss) == IF ss = <<>> THEN <<>> ELSE Head(ss) \o FlatMap(Tail(ss))

\* All sequences over S of length at most n
RECURSIVE SeqsUpTo(_, _)
SeqsUpTo(S, n) ==
    IF n = 0 THEN {<<>>} ELSE SeqsUpTo(S, n - 1) \cup [1..n -> S]

\* Sequences over S of length at most n without a repeated element
InjSeqs(S, n) == {s \in SeqsUpTo(S, n) : Cardinality(Range(s)) = Len(s)}

---------------------------------------------------------------------------
(* JavaScript values and conversions used by the handlers *)

\* Number -> property key, String(n), for the bucket numbers the code uses
StringOf(n) ==
    CASE n = 0 -> "0" [] n = 1 -> "1" [] n = 2 -> "2" [] n = 3 -> "3"
      [] n = 4 -> "4" [] n = 5 -> "5" [] n = 6 -> "6" [] n = 7 -> "7"
      [] n = 8 -> "8" [] n = 9 -> "9" [] n = 10 -> "10" [] n = 11 -> "11"
      [] n = 12 -> "12"

\* month.toString().padStart(2, "0")
PadStart2(n) ==
    CASE n = 1 -> "01" [] n = 2 -> "02" [] n = 3 -> "03" [] n = 4 -> "04"
      [] n = 5 -> "05" [] n = 6 -> "06" [] n = 7 -> "07" [] n = 8 -> "08"
      [] n = 9 -> "09" [] n = 10 -> "10" [] n = 11 -> "11" [] n = 12 -> "12"

\* parseInt(key) for the keys above
ParseInt(key) ==
    CASE key \in {"0"} -> 0
      [] key \in {"1", "01"} -> 1 [] key \in {"2", "02"} -> 2
      [] key \in {"3", "03"} -> 3 [] key \in {"4", "04"} -> 4
      [] key \in {"5", "05"} -> 5 [] key \in {"6", "06"} -> 6
      [] key \in {"7", "07"} -> 7 [] key \in {"8", "08"} -> 8
      [] key \in {"9", "09"} -> 9 [] key = "10" -> 10
      [] key = "11" -> 11 [] key = "12" -> 12

\* A property key is an array index when it is the canonical decimal form of
\* a non-negative integer ("7", "10"; not "07", not "Go").  Object.entries
\* lists such keys first, in ascending numeric order, and every other key
\* after them in insertion order.
IsArrayIndex(key) ==
    key \in {"0", "1", "2", "3", "4", "5", "6", "7", "8", "9", "10", "11", "12"}

\* An object used as a tally is its properties in insertion order:
\* a sequence of [key, value].
HasKey(obj, key) == \E i \in 1..Len(obj) : obj[i].key = key

\* obj[key] = (obj[key] || 0) + n
AddTo(obj, key, n) ==
    IF HasKey(obj, key)
    THEN [i \in 1..Len(obj) |->
            IF obj[i].key = key THEN [key |-> key, value |-> obj[i].value + n]
            ELSE obj[i]]
    ELSE Append(obj, [key |-> key, value |-> n])

\* Ascending insertion of an array-index property
RECURSIVE InsertIndexKey(_, _)
InsertIndexKey(sorted, e) ==
    IF sorted = <<>> THEN <<e>>
    ELSE IF ParseInt(e.key) < ParseInt(Head(sorted).key)
         THEN <<e>> \o sorted
         ELSE <<Head(sorted)>> \o InsertIndexKey(Tail(sorted), e)

RECURSIVE IndexKeysAscending(_)
IndexKeysAscending(s) ==
    IF s = <<>> THEN <<>>
    ELSE InsertIndexKey(IndexKeysAscending(Front(s)), Last(s))

\* Object.entries(obj): array-index keys ascending, then the other keys in
\* insertion order
ObjectEntries(obj) ==
    IndexKeysAscending(SelectSeq(obj, LAMBDA e : IsArrayIndex(e.key)))
        \o SelectSeq(obj, LAMBDA e : ~IsArrayIndex(e.key))

\* Array.prototype.sort((a, b) => b.value - a.value): a stable sort,
\* descending by value.  The element inserted last came last in the input,
\* so it goes after every element whose value is not smaller.
RECURSIVE InsertDescTiesFirst(_, _)
InsertDescTiesFirst(sorted, e) ==
    IF sorted = <<>> THEN <<e>>
    ELSE IF Head(sorted).value <= e.value
         THEN <<e>> \o sorted
         ELSE <<Head(sorted)>> \o InsertDescTiesFirst(Tail(sorted), e)

RECURSIVE InsertDesc(_, _)
InsertDesc(sorted, e) ==
    IF sorted = <<>> THEN <<e>>
    ELSE IF Head(sorted).value < e.value
         THEN <<e>> \o sorted
         ELSE <<Head(sorted)>> \o InsertDesc(Tail(sorted), e)

RECURSIVE SortDescByValue(_)
SortDescByValue(s) ==
    IF s = <<>> THEN <<>>
    ELSE InsertDesc(SortDescByValue(Front(s)), Last(s))

\* Math.round(num / den) of one division in doubles, num >= 0 and den > 0
\* small integers: halves round up.  The double nearest to num / den lies
\* on the same side of every half-integer as num / den itself, since a
\* quotient that is not a half-integer is at least 1 / (2 * den) away from one.
MathRound(num, den) == (2 * num + den) \div (2 * den)

RECURSIVE Pow2(_)
Pow2(e) == IF e = 0 THEN 1 ELSE 2 * Pow2(e - 1)

\* The e >= 0 with base * 2^e <= x < base * 2^(e + 1), for x >= base
RECURSIVE BinaryExponent(_, _)
BinaryExponent(x, base) ==
    IF x < 2 * base THEN 0 ELSE 1 + BinaryExponent(x, 2 * base)

\* Math.floor in the place of Math.round
WeekdayAverageFloored(total, length) == (total * 7) \div length

\* Math.round(total / (length / 7)): two divisions in IEEE doubles.
\* length / 7 is rounded to 53 bits first, so the second quotient is not
\* the exact 7 * total / length.  The difference (a relative 2^-53) matters
\* only when the exact quotient is a half-integer k + 1/2:
\*   - length a multiple of 7: both divisions are exact, k + 1;
\*   - length / 7 = t * 2^(h - 3) with 1 <= t < 2 keeps 53 bits of
\*     length * 2^(55 - h) / 7, losing the remainder r of that division.
\*     r <= 3 rounds the divisor down, the quotient lies above the half
\*     and k + 1 results; r >= 4 rounds it up by (7 - r) / 7 of a unit,
\*     the quotient lies below the half by (k + 1/2) * (7 - r) / (7 * t)
\*     units of 2^-52, and it is rounded back to k + 1/2 only if that is at
\*     most half a unit of k + 1/2 (2^p <= k < 2^(p + 1)); otherwise
\*     Math.round sees a number below the half and gives k.
\* E.g. 9 / (18 / 7) = 3.4999999999999996 gives 3.
WeekdayAverage(total, length) ==
    LET k == (total * 7) \div length
        tie == /\ (14 * total) % length = 0
               /\ ((14 * total) \div length) % 2 = 1
        h == BinaryExponent(8 * length, 7)
        r == ((length % 7) * Pow2((55 - h) % 3)) % 7
        p == BinaryExponent(k, 1)
    IN  IF ~tie \/ length % 7 = 0 \/ r <= 3
        THEN MathRound(total * 7, length)
        ELSE IF (2 * k + 1) * (7 - r) * Pow2(h) > length * Pow2(p + 3)
             THEN k
             ELSE k + 1

\* array.filter((x, index, self) => self.indexOf(x) === index)
RemoveDuplicates(s) ==
    LET kept == {i \in 1..Len(s) : \A j \in 1..(i - 1) : s[j] # s[i]}
    IN  [k \in 1..Cardinality(kept) |->
            s[CHOOSE i \in kept : Cardinality({j \in kept : j <= i}) = k]]

---------------------------------------------------------------------------
(* Dates.  A date is the ISO string GitHub supplies; DateFields is its      *)
(* parse.  The calendar below holds the days the model's GitHub can supply, *)
(* each with its real weekday (0 = Sunday).                                 *)

Calendar ==
    { [date |-> "2023-12-31", weekday |-> 0],
      [date |-> "2024-01-01", weekday |-> 1],
      [date |-> "2024-01-07", weekday |-> 0],
      [date |-> "2024-02-01", weekday |-> 4],
      [date |-> "2024-10-01", weekday |-> 2] }

DateFields(date) ==
    CASE date = "2023-12-31" -> <<2023, 12, 31>>
      [] date = "2024-01-01" -> <<2024, 1, 1>>
      [] date = "2024-01-07" -> <<2024, 1, 7>>
      [] date = "2024-02-01" -> <<2024, 2, 1>>
      [] date = "2024-10-01" -> <<2024, 10, 1>>

\* new Date(date).getTime(), up to an order-preserving rescaling
DateTime(date) ==
    LET f == DateFields(date) IN f[1] * 10000 + f[2] * 100 + f[3]

\* Time zones a host can be set to.  A zone gives an offset for every
\* instant, not one offset: America/New_York is west of UTC all year,
\* Atlantic/Azores is west of UTC in winter and at UTC in summer.  On the
\* dates of the calendar every zone that is never west of UTC behaves as
\* UTC does, every zone that is always west as America/New_York does.
TimeZones == {"UTC", "America/New_York", "Atlantic/Azores"}

\* Daylight saving time of the two zones at midnight UTC of <<year, month,
\* day>>.  The rule of the United States and that of the European Union both
\* put April to 24 October in it and 8 November to February out of it; they
\* change over in March and between 25 October and 7 November, on days that
\* depend on the year, where no date of the calendar lies.
InDaylightTime(f) == f[2] \in 4..9 \/ (f[2] = 10 /\ f[3] <= 24)

\* Hours east of UTC of the zone at midnight UTC of the date
UtcOffset(zone, f) ==
    CASE zone = "UTC" -> 0
      [] zone = "America/New_York" -> IF InDaylightTime(f) THEN -4 ELSE -5
      [] zone = "Atlantic/Azores" -> IF InDaylightTime(f) THEN 0 ELSE -1

IsLeapYear(year) == year % 4 = 0 /\ (year % 100 # 0 \/ year % 400 = 0)

DaysInMonth(year, month) ==
    IF month = 2 THEN (IF IsLeapYear(year) THEN 29 ELSE 28)
    ELSE IF month \in {4, 6, 9, 11} THEN 30
    ELSE 31

\* The day before <<year, month, day>>
PreviousDay(f) ==
    IF f[3] > 1 THEN <<f[1], f[2], f[3] - 1>>
    ELSE IF f[2] > 1 THEN <<f[1], f[2] - 1, DaysInMonth(f[1], f[2] - 1)>>
    ELSE <<f[1] - 1, 12, 31>>

\* The date a host in the given zone shows for new Date(date): a date-only
\* string is midnight UTC of that day, which is still the evening of the
\* day before where the zone is west of UTC at that instant
LocalDateFields(date, zone) ==
    IF UtcOffset(zone, DateFields(date)) < 0
    THEN PreviousDay(DateFields(date))
    ELSE DateFields(date)

\* new Date(date).getMonth(): the month of the host's local date, 0 = January
GetMonth(date) == LocalDateFields(date, hostTimeZone)[2] - 1

WEEKDAY_NAMES ==
    <<"Sunday", "Monday", "Tuesday", "Wednesday", "Thursday", "Friday",
      "Saturday">>

MONTH_NAMES ==
    <<"January", "February", "March", "April", "May", "June", "July",
      "August", "September", "October", "November", "December">>

---------------------------------------------------------------------------
(* The aggregation of the "full" revision (route.ts) *)

Undefined == [undefined |-> TRUE]

\* weeks.flatMap(week => week.contributionDays)
\*      .filter(day => new Date(day.date) >= new Date("2024-01-01"))
contributionDays(user) ==
    SelectSeq(FlatMap(user.weeks),
              LAMBDA day : DateTime(day.date) >= DateTime("2024-01-01"))

RECURSIVE monthlyCommits(_)
monthlyCommits(days) ==
    IF days = <<>> THEN <<>>
    ELSE LET day == Last(days)
             month == GetMonth(day.date) + 1
             monthKey == PadStart2(month)
         IN  AddTo(monthlyCommits(Front(days)), monthKey, day.contributionCount)

RECURSIVE dailyCommits(_)
dailyCommits(days) ==
    IF days = <<>> THEN <<>>
    ELSE LET day == Last(days)
         IN  AddTo(dailyCommits(Front(days)), StringOf(day.weekday),
                   day.contributionCount)

\* const [first] = Object.entries(obj).sort(([, a], [, b]) => b - a)
FirstBySum(obj) ==
    LET sorted == SortDescByValue(ObjectEntries(obj))
    IN  IF sorted = <<>> THEN Undefined ELSE sorted[1]

mostActiveMonth(days) == FirstBySum(monthlyCommits(days))

mostActiveDay(days) == FirstBySum(dailyCommits(days))

RECURSIVE totalStars(_)
totalStars(nodes) ==
    IF nodes = <<>> THEN 0
    ELSE totalStars(Front(nodes)) + Last(nodes).stargazerCount

\* primaryLanguage is <<>> (null) or <<name>>
\* The tally with each repository weighted by its stars
RECURSIVE languagesByStars(_)
languagesByStars(nodes) ==
    IF nodes = <<>> THEN <<>>
    ELSE LET repo == Last(nodes)
             acc == languagesByStars(Front(nodes))
         IN  IF repo.primaryLanguage # <<>> /\ repo.primaryLanguage[1] # ""
             THEN AddTo(acc, repo.primaryLanguage[1], repo.stargazerCount)
             ELSE acc

RECURSIVE languages(_)
languages(nodes) ==
    IF nodes = <<>> THEN <<>>
    ELSE LET repo == Last(nodes)
             acc == languages(Front(nodes))
         IN  IF repo.primaryLanguage # <<>> /\ repo.primaryLanguage[1] # ""
             THEN AddTo(acc, repo.primaryLanguage[1], 1)
             ELSE acc

topLanguages(nodes) ==
    LET top == Take(SortDescByValue(ObjectEntries(languages(nodes))), 3)
    IN  [i \in 1..Len(top) |-> top[i].key]

\* The streak loop without the reset on a zero-count day
RECURSIVE StreakLoopNoReset(_)
StreakLoopNoReset(days) ==
    IF days = <<>> THEN <<0, 0>>
    ELSE LET before == StreakLoopNoReset(Front(days))
             day == Last(days)
         IN  IF day.contributionCount > 0
             THEN <<before[1] + 1, Max(before[2], before[1] + 1)>>
             ELSE before

\* A streak loop whose zero-count day clears both counters
RECURSIVE StreakLoopResetBoth(_)
StreakLoopResetBoth(days) ==
    IF days = <<>> THEN <<0, 0>>
    ELSE LET before == StreakLoopResetBoth(Front(days))
             day == Last(days)
         IN  IF day.contributionCount > 0
             THEN <<before[1] + 1, Max(before[2], before[1] + 1)>>
             ELSE <<0, 0>>

\* The streak loop: state is <<currentStreak, maxStreak>>
RECURSIVE StreakLoop(_)
StreakLoop(days) ==
    IF days = <<>> THEN <<0, 0>>
    ELSE LET before == StreakLoop(Front(days))
             day == Last(days)
         IN  IF day.contributionCount > 0
             THEN <<before[1] + 1, Max(before[2], before[1] + 1)>>
             ELSE <<0, before[2]>>

maxStreak(days) == StreakLoop(days)[2]

\* Ranks counted from 0
AssignRanksFromZero(entries) ==
    [i \in 1..Len(entries) |->
        [username |-> entries[i].username, value |-> entries[i].value,
         avatarUrl |-> entries[i].avatarUrl, rank |-> i - 1]]

\* .map((entry, index) => ({ ...entry, rank: index + 1 }))
AssignRanks(entries) ==
    [i \in 1..Len(entries) |->
        [username |-> entries[i].username, value |-> entries[i].value,
         avatarUrl |-> entries[i].avatarUrl, rank |-> i]]

commitsEntry(user) ==
    [username |-> user.login, value |-> user.totalContributions,
     avatarUrl |-> user.avatarUrl, rank |-> 0]

streakEntry(user) ==
    [username |-> user.login, value |-> StreakLoop(contributionDays(user))[2],
     avatarUrl |-> user.avatarUrl, rank |-> 0]

starsEntry(user) ==
    [username |-> user.login, value |-> totalStars(user.repositories),
     avatarUrl |-> user.avatarUrl, rank |-> 0]

leaderboards(networkUsers) ==
    [commits |-> AssignRanks(SortDescByValue(
                    [i \in 1..Len(networkUsers) |-> commitsEntry(networkUsers[i])])),
     streak  |-> AssignRanks(SortDescByValue(
                    [i \in 1..Len(networkUsers) |-> streakEntry(networkUsers[i])])),
     stars   |-> AssignRanks(SortDescByValue(
                    [i \in 1..Len(networkUsers) |-> starsEntry(networkUsers[i])]))]

\* The rank with the tests for 500 and 200 in the wrong order
getCommitRankMisordered(totalCommits) ==
    IF totalCommits >= 5000 THEN "Top 0.5%-1%"
    ELSE IF totalCommits >= 2000 THEN "Top 1%-3%"
    ELSE IF totalCommits >= 1000 THEN "Top 5%-10%"
    ELSE IF totalCommits >= 200 THEN "Top 25%-30%"
    ELSE IF totalCommits >= 500 THEN "Top 10%-15%"
    ELSE IF totalCommits >= 50 THEN "Median 50%"
    ELSE "Bottom 30%"

getCommitRank(totalCommits) ==
    IF totalCommits >= 5000 THEN "Top 0.5%-1%"
    ELSE IF totalCommits >= 2000 THEN "Top 1%-3%"
    ELSE IF totalCommits >= 1000 THEN "Top 5%-10%"
    ELSE IF totalCommits >= 500 THEN "Top 10%-15%"
    ELSE IF totalCommits >= 200 THEN "Top 25%-30%"
    ELSE IF totalCommits >= 50 THEN "Median 50%"
    ELSE "Bottom 30%"

TypeErrorMessage == "Cannot read properties of undefined (reading '0')"

\* The catch block answering with its default text whatever was thrown
FailureResponseDefaultOnly(message, default) ==
    [status |-> 500, error |-> default]

FailureResponse(message, default) ==
    [status |-> 500, error |-> IF message = "" THEN default ELSE message]

\* The synchronous tail of the handler: everything after the last await.
\* Reading mostActiveDay[0] of an undefined mostActiveDay throws, and the
\* catch block turns the TypeError into the 500 response.
FullResponse(user, networkUsers) ==
    LET days == contributionDays(user)
        month == mostActiveMonth(days)
        weekday == mostActiveDay(days)
        boards == leaderboards(networkUsers)
    IN  IF weekday = Undefined \/ month = Undefined
        THEN FailureResponse(TypeErrorMessage, "Failed to fetch GitHub statistics")
        ELSE [status |-> 200,
              body |-> [longestStreak |-> maxStreak(days),
                        totalCommits |-> user.totalContributions,
                        commitRank |-> getCommitRank(user.totalContributions),
                        calendarData |-> days,
                        mostActiveDay |->
                            [name |-> WEEKDAY_NAMES[ParseInt(weekday.key) + 1],
                             commits |-> WeekdayAverage(weekday.value, Len(days))],
                        mostActiveMonth |->
                            [name |-> MONTH_NAMES[ParseInt(month.key)],
                             commits |-> month.value],
                        starsEarned |-> totalStars(user.repositories),
                        topLanguages |-> topLanguages(user.repositories),
                        leaderboards |-> boards]]

---------------------------------------------------------------------------
(* The aggregation of the "progressive" revision (part_002),                *)
(* loadType = contributions                                                 *)

PER_PAGE == 30

\* calendar.weeks.flatMap(week => week.contributionDays): no date filter
progContributionDays(user) == FlatMap(user.weeks)

progLongestStreak(days) == StreakLoop(days)[2]

RECURSIVE progDailyCommits(_)
progDailyCommits(days) ==
    IF days = <<>> THEN <<>>
    ELSE LET day == Last(days)
         IN  AddTo(progDailyCommits(Front(days)), StringOf(day.weekday),
                   day.contributionCount)

RECURSIVE progMonthlyCommits(_)
progMonthlyCommits(days) ==
    IF days = <<>> THEN <<>>
    ELSE LET day == Last(days)
         IN  AddTo(progMonthlyCommits(Front(days)), StringOf(GetMonth(day.date)),
                   day.contributionCount)

\* Object.entries(obj).sort(([, a], [, b]) => b - a)[0]
progFirstBySum(obj) ==
    LET sorted == SortDescByValue(ObjectEntries(obj))
    IN  IF sorted = <<>> THEN Undefined ELSE sorted[1]

progMostActiveDay(days) == progFirstBySum(progDailyCommits(days))

progMostActiveMonth(days) == progFirstBySum(progMonthlyCommits(days))

ContributionsResponse(user) ==
    LET days == progContributionDays(user)
        weekday == progMostActiveDay(days)
        month == progMostActiveMonth(days)
    IN  IF weekday = Undefined \/ month = Undefined
        THEN FailureResponse(TypeErrorMessage, "Failed to fetch GitHub stats")
        ELSE [status |-> 200,
              body |-> [calendarData |-> days,
                        stats |->
                          [totalCommits |-> user.totalContributions,
                           longestStreak |-> progLongestStreak(days),
                           mostActiveDay |->
                             [name |-> WEEKDAY_NAMES[ParseInt(weekday.key) + 1],
                              commits |-> WeekdayAverage(weekday.value, Len(days))],
                           mostActiveMonth |->
                             [name |-> MONTH_NAMES[ParseInt(month.key) + 1],
                              commits |-> month.value]]]]

---------------------------------------------------------------------------
(* Promise slots and the GitHub client *)

Absent == [state |-> "absent"]
Pending == [state |-> "pending"]
Fulfilled(data) == [state |-> "ok", data |-> data]
Null == [state |-> "null"]

NoResponse == [status |-> 0]

\* Messages of the errors the GitHub client throws
ErrorMessages == {"Not Found", ""}

\* per_page of the follower and following listings of the full revision
FULL_PER_PAGE == 3

\* One page of a GitHub listing (pages are numbered from 1)
PageOf(list, page, perPage) ==
    LET first == (page - 1) * perPage + 1
        last == IF Len(list) < page * perPage THEN Len(list) ELSE page * perPage
    IN  IF first > Len(list) THEN <<>> ELSE SubSeq(list, first, last)

\* Resuming as soon as one promise has settled
AnySettled(slots) ==
    slots = <<>> \/ \E i \in 1..Len(slots) : slots[i].state # "pending"

AllSettled(slots) == \A i \in 1..Len(slots) : slots[i].state # "pending"

\* An entry of the fetch history
Settled(kind, index, ok) ==
    [kind |-> kind, index |-> index, ok |-> ok, message |-> ""]

\* The entry of a fetch that threw an error with the given message
Rejected(kind, index, message) ==
    [kind |-> kind, index |-> index, ok |-> FALSE, message |-> message]

---------------------------------------------------------------------------
(* The request handler of the "full" revision (route.ts GET) *)

IsFull == request.revision = "full"

\* A username that passes for present although it is empty
NeverFalsy(value) == FALSE

\* !value: a parameter that is missing (null) or empty is falsy; the request
\* of the model holds the empty string for both
IsFalsy(value) == value = ""

\* Up to the first await: the username check, then the GraphQL query is sent
FullReceive ==
    /\ pc = "start"
    /\ IsFull
    /\ IF IsFalsy(request.username)
       THEN /\ response' = [status |-> 400, error |-> "Username parameter is required"]
            /\ pc' = "done"
       ELSE /\ pc' = "awaitUser"
            /\ UNCHANGED response
    /\ UNCHANGED <<others, ghUsers, ghFollowers, ghFollowing, request, userData,
                   followersResponse, followingResponse, networkLogins,
                   networkUsersData, fetchLog>>

\* await octokit.graphql(query, { username }) settles
FullUserFetched ==
    /\ pc = "awaitUser"
    /\ IsFull
    /\ \/ /\ request.username \in DOMAIN ghUsers
          /\ userData' = Fulfilled(ghUsers[request.username])
          /\ followersResponse' = Pending
          /\ followingResponse' = Pending
          /\ fetchLog' = Append(fetchLog, Settled("user", 0, TRUE))
          /\ pc' = "awaitLists"
          /\ UNCHANGED response
       \/ \E message \in ErrorMessages :
            /\ response' = FailureResponse(message, "Failed to fetch GitHub statistics")
            /\ fetchLog' = Append(fetchLog, Rejected("user", 0, message))
            /\ pc' = "done"
            /\ UNCHANGED <<userData, followersResponse, followingResponse>>
    /\ UNCHANGED <<others, ghUsers, ghFollowers, ghFollowing, request, networkLogins,
                   networkUsersData>>

\* listFollowersForUser({ username, per_page: 3 }) settles.  A rejection
\* rejects the Promise.all, and the catch block answers.
FullFollowersFetched ==
    /\ pc = "awaitLists"
    /\ IsFull
    /\ followersResponse = Pending
    /\ \/ /\ followersResponse' = Fulfilled(PageOf(ghFollowers, 1, FULL_PER_PAGE))
          /\ fetchLog' = Append(fetchLog, Settled("followers", 0, TRUE))
          /\ UNCHANGED <<pc, response>>
       \/ \E message \in ErrorMessages :
            /\ followersResponse' = Null
            /\ response' = FailureResponse(message, "Failed to fetch GitHub statistics")
            /\ fetchLog' = Append(fetchLog, Rejected("followers", 0, message))
            /\ pc' = "done"
    /\ UNCHANGED <<others, ghUsers, ghFollowers, ghFollowing, request, userData,
                   followingResponse, networkLogins, networkUsersData>>

\* listFollowingForUser({ username, per_page: 3 }) settles
FullFollowingFetched ==
    /\ pc = "awaitLists"
    /\ IsFull
    /\ followingResponse = Pending
    /\ \/ /\ followingResponse' = Fulfilled(PageOf(ghFollowing, 1, FULL_PER_PAGE))
          /\ fetchLog' = Append(fetchLog, Settled("following", 0, TRUE))
          /\ UNCHANGED <<pc, response>>
       \/ \E message \in ErrorMessages :
            /\ followingResponse' = Null
            /\ response' = FailureResponse(message, "Failed to fetch GitHub statistics")
            /\ fetchLog' = Append(fetchLog, Rejected("following", 0, message))
            /\ pc' = "done"
    /\ UNCHANGED <<others, ghUsers, ghFollowers, ghFollowing, request, userData,
                   followersResponse, networkLogins, networkUsersData>>

\* [...followersResponse.data, ...followingResponse.data]
\*     .map(user => user.login).filter(first occurrence)
\* The logins of both listings, a login of both being kept twice
fullNetworkLoginsKept(followers, following) == followers \o following

fullNetworkLogins(followers, following) == RemoveDuplicates(followers \o following)

\* Both listings are in: the logins are computed and one query per login is
\* sent, all of them concurrently
FullListsSettled ==
    /\ pc = "awaitLists"
    /\ IsFull
    /\ followersResponse.state = "ok"
    /\ followingResponse.state = "ok"
    /\ networkLogins' = fullNetworkLogins(followersResponse.data, followingResponse.data)
    /\ networkUsersData' = [i \in 1..Len(networkLogins') |-> Pending]
    /\ pc' = "awaitNetwork"
    /\ UNCHANGED <<others, ghUsers, ghFollowers, ghFollowing, request, userData,
                   followersResponse, followingResponse, fetchLog, response>>

\* What the per-login query yields: the login asked for and that user's data
NetworkUserRecord(login, user) ==
    [login |-> login, avatarUrl |-> user.avatarUrl,
     totalContributions |-> user.totalContributions, weeks |-> user.weeks,
     repositories |-> user.repositories]

\* Results collected in the order the promises settle
SettleNextFreeSlot(slots, i, result) ==
    LET free == CHOOSE k \in 1..Len(slots) :
                    /\ slots[k].state = "pending"
                    /\ \A j \in 1..(k - 1) : slots[j].state # "pending"
    IN  [slots EXCEPT ![free] = result]

\* Promise.all keeps each result at the index of its promise
SettleSlot(slots, i, result) == [slots EXCEPT ![i] = result]

\* The query for networkLogins[i] settles; a failure is caught inside the
\* mapper and becomes null
FullNetworkUserFetched(i) ==
    /\ pc = "awaitNetwork"
    /\ IsFull
    /\ i \in 1..Len(networkLogins)
    /\ networkUsersData[i] = Pending
    /\ \/ /\ networkLogins[i] \in DOMAIN ghUsers
          /\ networkUsersData' =
                SettleSlot(networkUsersData, i,
                    Fulfilled(NetworkUserRecord(networkLogins[i],
                                                ghUsers[networkLogins[i]])))
          /\ fetchLog' = Append(fetchLog, Settled("network", i, TRUE))
       \/ /\ networkUsersData' = SettleSlot(networkUsersData, i, Null)
          /\ fetchLog' = Append(fetchLog, Settled("network", i, FALSE))
    /\ networkFulfilled' = networkFulfilled + 1
    /\ UNCHANGED <<rest, reposResponse, repoStats, ghUsers, ghFollowers,
                   ghFollowing, request, pc, userData, followersResponse,
                   followingResponse, networkLogins, response>>

\* .filter(data => data !== null)
RECURSIVE NonNull(_)
NonNull(slots) ==
    IF slots = <<>> THEN <<>>
    ELSE IF Last(slots).state = "ok"
         THEN Append(NonNull(Front(slots)), Last(slots).data)
         ELSE NonNull(Front(slots))

\* networkUsers kept outside the handler: the users of the request answered
\* before are still in it
fullNetworkUsersKept(username, user, slots) ==
    LET before == IF served # <<>> /\ Last(served).response.status = 200
                     /\ Last(served).request.revision = "full"
                  THEN Last(served).response.body.leaderboards.commits
                  ELSE <<>>
    IN  [i \in 1..Len(before) |->
            NetworkUserRecord(before[i].username, ghUsers[before[i].username])]
        \o <<NetworkUserRecord(username, user)>> \o NonNull(slots)

\* networkUsers: the queried user, then networkUsers.push(...networkUsersData)
fullNetworkUsers(username, user, slots) ==
    <<NetworkUserRecord(username, user)>> \o NonNull(slots)

\* Every per-login query has settled: the rest of the handler runs to the
\* response
FullRespond ==
    /\ pc = "awaitNetwork"
    /\ IsFull
    /\ AllSettled(networkUsersData)
    /\ response' = FullResponse(userData.data,
                        fullNetworkUsers(request.username, userData.data,
                                         networkUsersData))
    /\ pc' = "done"
    /\ UNCHANGED <<others, ghUsers, ghFollowers, ghFollowing, request, userData,
                   followersResponse, followingResponse, networkLogins,
                   networkUsersData, fetchLog>>

FullNext ==
    \/ FullReceive
    \/ FullUserFetched
    \/ FullFollowersFetched
    \/ FullFollowingFetched
    \/ FullListsSettled
    \/ \E i \in DOMAIN networkLogins : FullNetworkUserFetched(i)
    \/ FullRespond

---------------------------------------------------------------------------
(* The request handler of the "progressive" revision (part_002 GET) *)

IsProgressive == request.revision = "progressive"

\* searchParams.get('loadType') || 'initial'
loadTypeOf(req) == IF IsFalsy(req.loadType) THEN "initial" ELSE req.loadType

\* Up to the first await: the username check and the loadType dispatch
ProgReceive ==
    /\ pc = "start"
    /\ IsProgressive
    /\ IF IsFalsy(request.username)
       THEN /\ response' = [status |-> 400, error |-> "Username is required"]
            /\ pc' = "done"
            /\ UNCHANGED <<userData, followersResponse, followingResponse,
                           reposResponse>>
       ELSE IF loadTypeOf(request) = "initial"
       THEN /\ pc' = "awaitInitial"
            /\ userData' = Pending
            /\ reposResponse' = Pending
            /\ UNCHANGED <<response, followersResponse, followingResponse>>
       ELSE IF loadTypeOf(request) = "contributions"
       THEN /\ pc' = "awaitContributions"
            /\ UNCHANGED <<response, userData, followersResponse,
                           followingResponse, reposResponse>>
       ELSE IF loadTypeOf(request) = "repositories"
       THEN /\ pc' = "awaitRepos"
            /\ reposResponse' = Pending
            /\ UNCHANGED <<response, userData, followersResponse,
                           followingResponse>>
       ELSE IF loadTypeOf(request) = "network"
       THEN /\ pc' = "awaitLists"
            /\ followersResponse' = Pending
            /\ followingResponse' = Pending
            /\ UNCHANGED <<response, userData, reposResponse>>
       ELSE /\ response' = [status |-> 400, error |-> "Invalid load type"]
            /\ pc' = "done"
            /\ UNCHANGED <<userData, followersResponse, followingResponse,
                           reposResponse>>
    /\ UNCHANGED <<pages, repoStats, ghUsers, ghFollowers, ghFollowing, request,
                   networkLogins, networkUsersData, fetchLog>>

\* per_page of the repository listing of the initial load
INITIAL_PER_PAGE == 100

\* octokit.users.getByUsername({ username }) of the initial load settles.  A
\* rejection rejects the Promise.all, and the catch block answers.
ProgInitialUserFetched ==
    /\ pc = "awaitInitial"
    /\ IsProgressive
    /\ userData = Pending
    /\ \/ /\ request.username \in DOMAIN ghUsers
          /\ userData' = Fulfilled(ghUsers[request.username])
          /\ fetchLog' = Append(fetchLog, Settled("user", 0, TRUE))
          /\ UNCHANGED <<pc, response>>
       \/ \E message \in ErrorMessages :
            /\ userData' = Null
            /\ response' = FailureResponse(message, "Failed to fetch GitHub stats")
            /\ fetchLog' = Append(fetchLog, Rejected("user", 0, message))
            /\ pc' = "done"
    /\ UNCHANGED <<pages, repoStats, reposResponse, ghUsers, ghFollowers,
                   ghFollowing, request, followersResponse, followingResponse,
                   networkLogins, networkUsersData>>

\* octokit.repos.listForUser({ username, per_page: 100 }) settles
ProgInitialReposFetched ==
    /\ pc = "awaitInitial"
    /\ IsProgressive
    /\ reposResponse = Pending
    /\ \/ /\ request.username \in DOMAIN ghUsers
          /\ reposResponse' =
                Fulfilled(PageOf(ghUsers[request.username].repositories, 1,
                                 INITIAL_PER_PAGE))
          /\ fetchLog' = Append(fetchLog, Settled("repos", 0, TRUE))
          /\ UNCHANGED <<pc, response>>
       \/ \E message \in ErrorMessages :
            /\ reposResponse' = Null
            /\ response' = FailureResponse(message, "Failed to fetch GitHub stats")
            /\ fetchLog' = Append(fetchLog, Rejected("repos", 0, message))
            /\ pc' = "done"
    /\ UNCHANGED <<pages, repoStats, userData, ghUsers, ghFollowers,
                   ghFollowing, request, followersResponse, followingResponse,
                   networkLogins, networkUsersData>>

\* repos.data.reduce((acc, repo) => acc + (repo.stargazers_count ?? 0), 0)
RECURSIVE progTotalStars(_)
progTotalStars(repos) ==
    IF repos = <<>> THEN 0
    ELSE progTotalStars(Front(repos)) + Last(repos).stargazerCount

\* getCommitRank of the initial load: its argument is a follower count
progGetCommitRank(followers) ==
    IF followers >= 1000 THEN "Top 1%"
    ELSE IF followers >= 500 THEN "Top 5%"
    ELSE IF followers >= 100 THEN "Top 10%"
    ELSE IF followers >= 50 THEN "Top 25%"
    ELSE "Top 50%"

\* The stats of the initial load; name: user.data.name || user.data.login
InitialResponse(user, repos) ==
    [status |-> 200,
     body |-> [username |-> user.login,
               avatarUrl |-> user.avatarUrl,
               name |-> IF IsFalsy(user.name) THEN user.login ELSE user.name,
               followers |-> user.followers,
               following |-> user.following,
               totalCommits |-> 0,
               longestStreak |-> 0,
               starsEarned |-> progTotalStars(repos),
               commitRank |-> progGetCommitRank(user.followers),
               mostActiveDay |-> [name |-> "Loading...", commits |-> 0],
               mostActiveMonth |-> [name |-> "Loading...", commits |-> 0]]]

\* Both promises of the initial load have resolved
ProgInitialRespond ==
    /\ pc = "awaitInitial"
    /\ IsProgressive
    /\ userData.state = "ok"
    /\ reposResponse.state = "ok"
    /\ response' = InitialResponse(userData.data, reposResponse.data)
    /\ pc' = "done"
    /\ UNCHANGED <<pages, repoStats, reposResponse, userData, ghUsers,
                   ghFollowers, ghFollowing, request, followersResponse,
                   followingResponse, networkLogins, networkUsersData, fetchLog>>

\* octokit.repos.listForUser({ username, per_page: PER_PAGE, page }) of the
\* repositories load settles; listLanguages is then sent for every listed
\* repository, all of them concurrently
ProgReposFetched ==
    /\ pc = "awaitRepos"
    /\ IsProgressive
    /\ \/ /\ request.username \in DOMAIN ghUsers
          /\ reposResponse' =
                Fulfilled(PageOf(ghUsers[request.username].repositories,
                                 request.page, PER_PAGE))
          /\ repoStats' = [i \in 1..Len(reposResponse'.data) |-> Pending]
          /\ fetchLog' = Append(fetchLog, Settled("repos", 0, TRUE))
          /\ pc' = "awaitLanguages"
          /\ UNCHANGED response
       \/ \E message \in ErrorMessages :
            /\ reposResponse' = Null
            /\ response' = FailureResponse(message, "Failed to fetch GitHub stats")
            /\ fetchLog' = Append(fetchLog, Rejected("repos", 0, message))
            /\ pc' = "done"
            /\ UNCHANGED repoStats
    /\ UNCHANGED <<pages, userData, ghUsers, ghFollowers, ghFollowing, request,
                   followersResponse, followingResponse, networkLogins,
                   networkUsersData>>

\* What the mapper returns for the i-th repository of the page.  The
\* repositories of the model carry no name: the position in GitHub's listing
\* stands for it.  The languages GitHub reports for a repository are its
\* primary language, if any.
RepoStat(repo, i, page) ==
    [name |-> <<"repo", (page - 1) * PER_PAGE + i>>,
     stars |-> repo.stargazerCount,
     languages |-> repo.primaryLanguage]

\* listLanguages for the i-th listed repository settles.  Nothing catches a
\* rejection: it rejects the Promise.all and the catch block answers.
ProgLanguagesFetched(i) ==
    /\ pc = "awaitLanguages"
    /\ IsProgressive
    /\ i \in 1..Len(repoStats)
    /\ repoStats[i] = Pending
    /\ \/ /\ repoStats' =
                SettleSlot(repoStats, i,
                           Fulfilled(RepoStat(reposResponse.data[i], i, request.page)))
          /\ fetchLog' = Append(fetchLog, Settled("languages", i, TRUE))
          /\ UNCHANGED <<pc, response>>
       \/ \E message \in ErrorMessages :
            /\ repoStats' = SettleSlot(repoStats, i, Null)
            /\ response' = FailureResponse(message, "Failed to fetch GitHub stats")
            /\ fetchLog' = Append(fetchLog, Rejected("languages", i, message))
            /\ pc' = "done"
    /\ UNCHANGED <<pages, reposResponse, userData, ghUsers, ghFollowers,
                   ghFollowing, request, followersResponse, followingResponse,
                   networkLogins, networkUsersData>>

\* A response that always announces a further page
RepositoriesResponseMore(slots, listed, page) ==
    [status |-> 200,
     body |-> [repositories |-> [i \in 1..Len(slots) |-> slots[i].data],
               hasMore |-> TRUE,
               nextPage |-> page + 1]]

RepositoriesResponse(slots, listed, page) ==
    [status |-> 200,
     body |-> [repositories |-> [i \in 1..Len(slots) |-> slots[i].data],
               hasMore |-> Len(listed) = PER_PAGE,
               nextPage |-> page + 1]]

\* Every listLanguages has resolved
ProgRepositoriesRespond ==
    /\ pc = "awaitLanguages"
    /\ IsProgressive
    /\ \A i \in 1..Len(repoStats) : repoStats[i].state = "ok"
    /\ response' = RepositoriesResponse(repoStats, reposResponse.data, request.page)
    /\ pc' = "done"
    /\ UNCHANGED <<pages, repoStats, reposResponse, userData, ghUsers,
                   ghFollowers, ghFollowing, request, followersResponse,
                   followingResponse, networkLogins, networkUsersData, fetchLog>>

\* await octokit.graphql(query, { username }) settles; the response is
\* computed without a further await
ProgContributionsFetched ==
    /\ pc = "awaitContributions"
    /\ IsProgressive
    /\ \/ /\ request.username \in DOMAIN ghUsers
          /\ userData' = Fulfilled(ghUsers[request.username])
          /\ response' = ContributionsResponse(ghUsers[request.username])
          /\ fetchLog' = Append(fetchLog, Settled("contributions", 0, TRUE))
       \/ \E message \in ErrorMessages :
            /\ response' = FailureResponse(message, "Failed to fetch GitHub stats")
            /\ fetchLog' = Append(fetchLog, Rejected("contributions", 0, message))
            /\ UNCHANGED userData
    /\ pc' = "done"
    /\ UNCHANGED <<others, ghUsers, ghFollowers, ghFollowing, request,
                   followersResponse, followingResponse, networkLogins,
                   networkUsersData>>

\* listFollowersForUser({ username, per_page: PER_PAGE, page }) settles
ProgFollowersFetched ==
    /\ pc = "awaitLists"
    /\ IsProgressive
    /\ followersResponse = Pending
    /\ \/ /\ followersResponse' = Fulfilled(PageOf(ghFollowers, request.page, PER_PAGE))
          /\ fetchLog' = Append(fetchLog, Settled("followers", 0, TRUE))
          /\ UNCHANGED <<pc, response>>
       \/ \E message \in ErrorMessages :
            /\ followersResponse' = Null
            /\ response' = FailureResponse(message, "Failed to fetch GitHub stats")
            /\ fetchLog' = Append(fetchLog, Rejected("followers", 0, message))
            /\ pc' = "done"
    /\ UNCHANGED <<others, ghUsers, ghFollowers, ghFollowing, request, userData,
                   followingResponse, networkLogins, networkUsersData>>

\* listFollowingForUser({ username, per_page: PER_PAGE, page }) settles
ProgFollowingFetched ==
    /\ pc = "awaitLists"
    /\ IsProgressive
    /\ followingResponse = Pending
    /\ \/ /\ followingResponse' = Fulfilled(PageOf(ghFollowing, request.page, PER_PAGE))
          /\ fetchLog' = Append(fetchLog, Settled("following", 0, TRUE))
          /\ UNCHANGED <<pc, response>>
       \/ \E message \in ErrorMessages :
            /\ followingResponse' = Null
            /\ response' = FailureResponse(message, "Failed to fetch GitHub stats")
            /\ fetchLog' = Append(fetchLog, Rejected("following", 0, message))
            /\ pc' = "done"
    /\ UNCHANGED <<others, ghUsers, ghFollowers, ghFollowing, request, userData,
                   followersResponse, networkLogins, networkUsersData>>

\* Array.from(new Set([...followers logins, ...following logins])): a Set
\* iterates in insertion order
networkUserLogins(followers, following) == RemoveDuplicates(followers \o following)

\* Both listings are in: getByUsername is sent for the first PER_PAGE logins
ProgListsSettled ==
    /\ pc = "awaitLists"
    /\ IsProgressive
    /\ followersResponse.state = "ok"
    /\ followingResponse.state = "ok"
    /\ networkLogins' = Take(networkUserLogins(followersResponse.data,
                                               followingResponse.data), PER_PAGE)
    /\ networkUsersData' = [i \in 1..Len(networkLogins') |-> Pending]
    /\ pc' = "awaitNetwork"
    /\ UNCHANGED <<others, ghUsers, ghFollowers, ghFollowing, request, userData,
                   followersResponse, followingResponse, fetchLog, response>>

\* What the mapper returns for one login
NetworkStat(user) ==
    [username |-> user.login, avatarUrl |-> user.avatarUrl,
     followers |-> user.followers, following |-> user.following]

\* getByUsername for networkLogins[i] settles.  Nothing catches a rejection:
\* it rejects the Promise.all and the catch block of the handler answers.
ProgNetworkUserFetched(i) ==
    /\ pc = "awaitNetwork"
    /\ IsProgressive
    /\ i \in 1..Len(networkLogins)
    /\ networkUsersData[i] = Pending
    /\ \/ /\ networkLogins[i] \in DOMAIN ghUsers
          /\ networkUsersData' =
                SettleSlot(networkUsersData, i,
                           Fulfilled(NetworkStat(ghUsers[networkLogins[i]])))
          /\ fetchLog' = Append(fetchLog, Settled("network", i, TRUE))
          /\ networkFulfilled' = networkFulfilled + 1
          /\ UNCHANGED <<pc, response>>
       \/ \E message \in ErrorMessages :
            /\ networkUsersData' = SettleSlot(networkUsersData, i, Null)
            /\ response' = FailureResponse(message, "Failed to fetch GitHub stats")
            /\ fetchLog' = Append(fetchLog, Rejected("network", i, message))
            /\ pc' = "done"
            /\ UNCHANGED networkFulfilled
    /\ UNCHANGED <<rest, reposResponse, repoStats, ghUsers, ghFollowers,
                   ghFollowing, request, userData, followersResponse,
                   followingResponse, networkLogins>>

NetworkResponse(slots, allLogins, page) ==
    [status |-> 200,
     body |-> [networkStats |-> [i \in 1..Len(slots) |-> slots[i].data],
               hasMore |-> Len(allLogins) > PER_PAGE,
               nextPage |-> page + 1]]

\* Every getByUsername has resolved
ProgNetworkRespond ==
    /\ pc = "awaitNetwork"
    /\ IsProgressive
    /\ \A i \in 1..Len(networkUsersData) : networkUsersData[i].state = "ok"
    /\ response' = NetworkResponse(networkUsersData,
                        networkUserLogins(followersResponse.data,
                                          followingResponse.data),
                        request.page)
    /\ pc' = "done"
    /\ UNCHANGED <<others, ghUsers, ghFollowers, ghFollowing, request, userData,
                   followersResponse, followingResponse, networkLogins,
                   networkUsersData, fetchLog>>

ProgNext ==
    \/ ProgReceive
    \/ ProgInitialUserFetched
    \/ ProgInitialReposFetched
    \/ ProgInitialRespond
    \/ ProgReposFetched
    \/ \E i \in DOMAIN repoStats : ProgLanguagesFetched(i)
    \/ ProgRepositoriesRespond
    \/ ProgContributionsFetched
    \/ ProgFollowersFetched
    \/ ProgFollowingFetched
    \/ ProgListsSettled
    \/ \E i \in DOMAIN networkLogins : ProgNetworkUserFetched(i)
    \/ ProgNetworkRespond

---------------------------------------------------------------------------
(* GitHub data and requests the model starts from *)

Username == "octocat"

NetworkPool == {"alice", "bob"}

WeekdayOf(date) == (CHOOSE c \in Calendar : c.date = date).weekday

Day(date, count) ==
    [date |-> date, contributionCount |-> count, weekday |-> WeekdayOf(date)]

Repo(stars, language) == [stargazerCount |-> stars, primaryLanguage |-> language]

\* GitHub groups the days of the calendar in weeks; the first week is partial
Weeks(days) ==
    IF days = <<>> THEN <<>>
    ELSE IF Len(days) = 1 THEN <<days>>
    ELSE <<<<Head(days)>>, Tail(days)>>

RECURSIVE SumCounts(_)
SumCounts(days) ==
    IF days = <<>> THEN 0 ELSE Head(days).contributionCount + SumCounts(Tail(days))

\* The data GitHub holds for one user; totalContributions is the total of
\* the calendar.  name is the display name of the profile, "" when the
\* user has set none.
GitHubUser(login, days, repos, followers, following) ==
    [login |-> login, name |-> "", avatarUrl |-> <<"avatar of", login>>,
     totalContributions |-> SumCounts(days), weeks |-> Weeks(days),
     repositories |-> repos, followers |-> followers, following |-> following]

\* The user with the display name set in the profile
Named(user, name) == [user EXCEPT !.name = name]

\* Display names: none, and one
DisplayNames == {"", "The Octocat"}

\* Day series: distinct dates in any order, each with a count
DayCounts == {0, 1, 2}

DaySeries ==
    UNION { {[i \in 1..Len(dates) |-> Day(dates[i], counts[i])] :
                counts \in [1..Len(dates) -> DayCounts]} :
            dates \in InjSeqs({c.date : c \in Calendar}, MaxDays) }

\* Repositories: a star count and a primary language (<<>> is none)
RepoKinds ==
    { Repo(1, <<>>), Repo(0, <<"Go">>), Repo(2, <<"Go">>), Repo(1, <<"Rust">>),
      Repo(0, <<"C">>), Repo(3, <<"Zig">>) }

RepoLists == SeqsUpTo(RepoKinds, MaxRepos)

\* Three users' worth of data that rank differently by commits (C > A > B),
\* by streak since 2024 (B > A > C, C having no day since 2024) and by stars
\* (B = C > A)
ProfileA == [days |-> <<Day("2024-01-01", 100)>>,
             repos |-> <<Repo(1, <<"Go">>)>>, followers |-> 3, following |-> 1]
ProfileB == [days |-> <<Day("2023-12-31", 10), Day("2024-01-01", 20),
                        Day("2024-01-07", 20)>>,
             repos |-> <<Repo(2, <<"C">>), Repo(3, <<>>)>>,
             followers |-> 0, following |-> 2]
ProfileC == [days |-> <<Day("2023-12-31", 200)>>,
             repos |-> <<Repo(5, <<"Rust">>)>>, followers |-> 7, following |-> 7]

Profiles == {ProfileA, ProfileB, ProfileC}

UserOf(login, profile) ==
    GitHubUser(login, profile.days, profile.repos, profile.followers,
               profile.following)

\* Total commit counts around every threshold of getCommitRank
CommitSamples ==
    {0, 1, 49, 50, 51, 199, 200, 201, 499, 500, 501, 999, 1000, 1001,
     1999, 2000, 2001, 4999, 5000, 5001, 9999}

FullRequest == [revision |-> "full", username |-> Username,
                loadType |-> "", page |-> 1]

ProgRequest(loadType, page) ==
    [revision |-> "progressive", username |-> Username,
     loadType |-> loadType, page |-> page]

\* The handler has not started
FreshIn(zone) ==
    /\ hostTimeZone = zone
    /\ pc = "start"
    /\ userData = Absent
    /\ followersResponse = Absent
    /\ followingResponse = Absent
    /\ networkLogins = <<>>
    /\ networkUsersData = <<>>
    /\ networkFulfilled = 0
    /\ fetchLog = <<>>
    /\ response = NoResponse
    /\ reposResponse = Absent
    /\ repoStats = <<>>

\* The same on a host in any of the time zones
Fresh == \E zone \in TimeZones : FreshIn(zone)

\* The queried user's contribution days vary; one follower
InitDays ==
    /\ \E days \in DaySeries :
          ghUsers = [login \in {Username, "alice"} |->
                        IF login = Username
                        THEN GitHubUser(login, days, <<Repo(1, <<"Go">>)>>, 1, 0)
                        ELSE UserOf(login, ProfileA)]
    /\ ghFollowers = <<"alice">>
    /\ ghFollowing = <<>>
    /\ request \in {FullRequest, ProgRequest("contributions", 1)}
    /\ Fresh

\* The queried user's repositories vary
InitRepos ==
    /\ \E repos \in RepoLists :
          ghUsers = [login \in {Username, "alice"} |->
                        IF login = Username
                        THEN GitHubUser(login, <<Day("2024-01-01", 1)>>, repos, 1, 0)
                        ELSE UserOf(login, ProfileA)]
    /\ ghFollowers = <<"alice">>
    /\ ghFollowing = <<>>
    /\ request = FullRequest
    /\ Fresh

\* The network varies: who follows, who is followed, and each user's data
InitNetwork ==
    /\ \E profile \in [{Username} \cup NetworkPool -> Profiles] :
          ghUsers = [login \in {Username} \cup NetworkPool |->
                        UserOf(login, profile[login])]
    /\ ghFollowers \in InjSeqs(NetworkPool, MaxFollow)
    /\ ghFollowing \in InjSeqs(NetworkPool, MaxFollow)
    /\ request \in {FullRequest, ProgRequest("network", 1), ProgRequest("network", 2)}
    /\ Fresh

\* The queried user's total commit count varies across the rank thresholds
InitCommits ==
    /\ \E total \in CommitSamples :
          ghUsers = [login \in {Username} |->
                        GitHubUser(login, <<Day("2024-01-01", total)>>, <<>>, 0, 0)]
    /\ ghFollowers = <<>>
    /\ ghFollowing = <<>>
    /\ request = FullRequest
    /\ Fresh

\* Follower counts around every threshold of the rank of the initial load
FollowerSamples == {0, 49, 50, 99, 100, 499, 500, 999, 1000}

\* The initial load: the queried user's follower count and total commit
\* count vary independently
InitInitial ==
    /\ \E followers \in FollowerSamples, total \in {0, 50, 5000},
          name \in DisplayNames :
          ghUsers = [login \in {Username} |->
                        Named(GitHubUser(login, <<Day("2024-01-01", total)>>,
                                         <<Repo(2, <<"Go">>), Repo(3, <<>>)>>,
                                         followers, 0), name)]
    /\ ghFollowers = <<>>
    /\ ghFollowing = <<>>
    /\ request \in {ProgRequest("initial", 1), ProgRequest("", 1)}
    /\ Fresh

\* The repositories load: the queried user's repositories and the page vary
InitRepositories ==
    /\ \E repos \in SeqsUpTo({Repo(1, <<>>), Repo(2, <<"Go">>)}, MaxFollow) :
          ghUsers = [login \in {Username} |->
                        GitHubUser(login, <<Day("2024-01-01", 1)>>, repos, 0, 0)]
    /\ ghFollowers = <<>>
    /\ ghFollowing = <<>>
    /\ request \in {ProgRequest("repositories", 1), ProgRequest("repositories", 2)}
    /\ Fresh

\* Requests the handlers refuse
InitRefused ==
    /\ ghUsers = [login \in {Username} |->
                    GitHubUser(login, <<Day("2024-01-01", 1)>>, <<>>, 0, 0)]
    /\ ghFollowers = <<>>
    /\ ghFollowing = <<>>
    /\ request \in {[FullRequest EXCEPT !.username = ""]}
                   \cup {[ProgRequest(loadType, 1) EXCEPT !.username = ""] :
                            loadType \in {"", "initial", "contributions",
                                          "repositories", "network", "unknown"}}
                   \cup {ProgRequest(loadType, 1) :
                            loadType \in {"unknown", "Initial", "stats"}}
    /\ Fresh

\* null
JsNull == [null |-> TRUE]

\* The leaderboards page as mounted: the initial values of its useState calls
\* and no request in flight; loaded is history, the pages applied since the
\* last search, in order.  observed is the username in the closure of the
\* loadMore that the intersection observer calls: the username of the render
\* in which the observer effect last ran.
LeaderboardsPageMounted ==
    [username |-> "", loading |-> FALSE, error |-> "", networkUsers |-> <<>>,
     networkStats |-> JsNull, currentPage |-> 1, hasMore |-> TRUE,
     inFlight |-> EmptyBag, applied |-> JsNull, loaded |-> <<>>, observed |-> ""]

\* The home page as mounted
HomePageMounted ==
    [username |-> "", stats |-> JsNull,
     loading |-> [initial |-> FALSE, contributions |-> FALSE, network |-> FALSE],
     error |-> "", inFlight |-> EmptyBag, submits |-> 0,
     origin |-> [initial |-> 0, contributions |-> 0, network |-> 0]]

\* RepositoriesPage as mounted without a username in the URL: the useState
\* initial values.  inFlight (the fetches not yet answered, a bag: the same
\* request can be outstanding more than once), submits (the
\* number of submits so far), requested (the pages requested since the last
\* submit, in order, without the requests that failed) and loaded (the
\* responses applied since the last submit, in order) are history;
\* observed is the username in the closure of the loadMore that the
\* intersection observer calls.
RepositoriesPageMounted ==
    [username |-> "", repositories |-> <<>>, loading |-> FALSE, error |-> "",
     currentPage |-> 1, hasMore |-> TRUE, allLanguages |-> {},
     inFlight |-> EmptyBag, submits |-> 0, requested |-> <<>>, loaded |-> <<>>,
     observed |-> ""]

\* Home with the repository list, as mounted; inFlight, submits, requested,
\* loaded and observed are as above
ProgressiveHomeMounted ==
    [username |-> "", basicStats |-> JsNull, contributions |-> JsNull,
     repositories |-> <<>>, networkStats |-> JsNull,
     loading |-> [initial |-> FALSE, contributions |-> FALSE,
                  repositories |-> FALSE, network |-> FALSE],
     error |-> "", currentPage |-> 1, hasMore |-> TRUE,
     inFlight |-> EmptyBag, submits |-> 0, requested |-> <<>>, loaded |-> <<>>,
     observed |-> ""]

\* This is the only invocation of GET so far, and no page is in use
Unused ==
    /\ served = <<>>
    /\ arrivedDuring = 0
    /\ leaderboardsPage = LeaderboardsPageMounted
    /\ homePage = HomePageMounted
    /\ repositoriesPage = RepositoriesPageMounted
    /\ progressiveHome = ProgressiveHomeMounted

Init ==
    /\ \/ InitDays
       \/ InitRepos
       \/ InitNetwork
       \/ InitCommits
       \/ InitInitial
       \/ InitRepositories
       \/ InitRefused
    /\ Unused

Next == FullNext \/ ProgNext

Spec == Init /\ [][Next]_vars

---------------------------------------------------------------------------
(* Reference definitions the properties are stated with *)

Answered == pc = "done"

Succeeded == Answered /\ response.status = 200

FullSucceeded == Succeeded /\ IsFull

ContributionsSucceeded ==
    Succeeded /\ IsProgressive /\ request.loadType = "contributions"

NetworkSucceeded == Succeeded /\ IsProgressive /\ request.loadType = "network"

MaxOf(S) == CHOOSE x \in S : \A y \in S : y <= x

MinOf(S) == CHOOSE x \in S : \A y \in S : x <= y

\* Length of the longest run of consecutive entries with a non-zero count
LongestRun(days) ==
    MaxOf({n \in 0..Len(days) :
              n = 0 \/ \E i \in 1..(Len(days) - n + 1) :
                          \A k \in i..(i + n - 1) : days[k].contributionCount > 0})

\* The days of a GitHub user as the revision in use reads them
DaysRead(login) ==
    LET all == FlatMap(ghUsers[login].weeks)
    IN  IF IsFull
        THEN SelectSeq(all, LAMBDA day : DateTime(day.date) >= 20240101)
        ELSE all

\* The streak the response reports for the queried user
ReportedStreak ==
    IF IsFull THEN response.body.longestStreak
    ELSE response.body.stats.longestStreak

\* C1: the reported longestStreak is the length of the longest run of
\* consecutive days with a non-zero count, in the order processed: in the
\* full response and in the contributions response for the queried user, and
\* in every entry of the streak leaderboard for that entry's user (0 when
\* the user has no day to process, n when all n days are non-zero).
C1_LongestStreakIsLongestRun ==
    /\ (FullSucceeded \/ ContributionsSucceeded) =>
          /\ ReportedStreak = LongestRun(response.body.calendarData)
          /\ response.body.calendarData = DaysRead(request.username)
    /\ FullSucceeded =>
          \A i \in 1..Len(response.body.leaderboards.streak) :
              LET entry == response.body.leaderboards.streak[i]
              IN  entry.value = LongestRun(DaysRead(entry.username))

\* Three days were processed in the full revision, one without
\* contributions between two with: the longest run is 1
C1_Witness ==
    /\ FullSucceeded
    /\ Len(response.body.calendarData) = 3
    /\ response.body.calendarData[1].contributionCount > 0
    /\ response.body.calendarData[2].contributionCount = 0
    /\ response.body.calendarData[3].contributionCount > 0
    /\ response.body.longestStreak = 1

C1_WitnessAllNonZero ==
    /\ ContributionsSucceeded
    /\ Len(response.body.calendarData) = MaxDays
    /\ \A i \in 1..MaxDays : response.body.calendarData[i].contributionCount > 0
    /\ response.body.stats.longestStreak = MaxDays


AllFetchesSucceeded == \A i \in 1..Len(fetchLog) : fetchLog[i].ok

\* C2: with no contribution days (also none left by the date filter) or no
\* repositories, and every fetch succeeding, the request is answered 200 with
\* zero values: longestStreak 0, starsEarned 0, no top language, and a
\* mostActiveDay and a mostActiveMonth in the body.
C2_EmptyInputStillSucceeds ==
    (/\ Answered
     /\ request.username # ""
     /\ IsFull \/ request.loadType = "contributions"
     /\ AllFetchesSucceeded
     /\ \/ DaysRead(request.username) = <<>>
        \/ ghUsers[request.username].repositories = <<>>)
    => /\ response.status = 200
       /\ DaysRead(request.username) = <<>> => ReportedStreak = 0
       /\ IsFull => /\ "mostActiveDay" \in DOMAIN response.body
                    /\ "mostActiveMonth" \in DOMAIN response.body
       /\ (IsFull /\ ghUsers[request.username].repositories = <<>>) =>
              /\ response.body.starsEarned = 0
              /\ response.body.topLanguages = <<>>

Boards == {"commits", "streak", "stars"}

\* C3: in every leaderboard of a successful full response the rank of an
\* entry is its 1-based position (so the ranks are exactly 1..N) and the
\* value does not increase with the rank.
C3_RanksArePositions ==
    FullSucceeded =>
        \A b \in Boards :
            LET board == response.body.leaderboards[b]
            IN  /\ \A i \in 1..Len(board) : board[i].rank = i
                /\ {board[i].rank : i \in 1..Len(board)} = 1..Len(board)
                /\ \A i \in 1..Len(board), j \in 1..Len(board) :
                      board[i].rank < board[j].rank =>
                          board[i].value >= board[j].value

\* A leaderboard of three users with three different values
C3_Witness ==
    /\ FullSucceeded
    /\ Len(response.body.leaderboards.commits) = 3
    /\ response.body.leaderboards.commits[1].value >
          response.body.leaderboards.commits[2].value
    /\ response.body.leaderboards.commits[2].value >
          response.body.leaderboards.commits[3].value
    /\ response.body.leaderboards.commits[1].username # request.username

\* The users a full response ranks, in input order: the queried user, then
\* the followers and the following GitHub listed (at most three of each, a
\* login once), without those whose query failed
IndexIn(s, x) == MinOf({i \in 1..Len(s) : s[i] = x})

FetchFailed(kind, index) ==
    \E i \in 1..Len(fetchLog) :
        fetchLog[i].kind = kind /\ fetchLog[i].index = index /\ ~fetchLog[i].ok

ListedLogins ==
    LET listed == SubSeq(ghFollowers, 1, MinOf({3, Len(ghFollowers)}))
                    \o SubSeq(ghFollowing, 1, MinOf({3, Len(ghFollowing)}))
    IN  SelectSeq([i \in 1..Len(listed) |-> [login |-> listed[i], at |-> i]],
                  LAMBDA e : \A j \in 1..(e.at - 1) : listed[j] # e.login)

InputOrder ==
    LET listed == ListedLogins
        kept == SelectSeq([i \in 1..Len(listed) |->
                              [login |-> listed[i].login, at |-> i]],
                          LAMBDA e : ~FetchFailed("network", e.at))
    IN  <<request.username>> \o [i \in 1..Len(kept) |-> kept[i].login]

\* The value of a user on a board, from GitHub's data
StarsOf(login) ==
    LET repos == ghUsers[login].repositories
        N == Len(repos)
        f[i \in 0..N] == IF i = 0 THEN 0 ELSE f[i - 1] + repos[i].stargazerCount
    IN  f[N]

BoardValue(b, login) ==
    CASE b = "commits" -> ghUsers[login].totalContributions
      [] b = "streak" -> LongestRun(DaysRead(login))
      [] b = "stars" -> StarsOf(login)

\* C4: every leaderboard is the users in input order, sorted descending by
\* value with ties left in input order; each entry carries its user's own
\* username, value and avatarUrl; commits of 100, 50, 200 in input order
\* give the order 200, 100, 50 with ranks 1, 2, 3.
C4_StableDescendingSort ==
    FullSucceeded =>
        \A b \in Boards :
            LET board == response.body.leaderboards[b]
                input == InputOrder
            IN  /\ Len(board) = Len(input)
                /\ {board[i].username : i \in 1..Len(board)} = Range(input)
                /\ \A i \in 1..Len(board) :
                      /\ board[i].value = BoardValue(b, board[i].username)
                      /\ board[i].avatarUrl = ghUsers[board[i].username].avatarUrl
                /\ \A i \in 1..Len(board), j \in 1..Len(board) :
                      i < j =>
                          \/ board[i].value > board[j].value
                          \/ /\ board[i].value = board[j].value
                             /\ IndexIn(input, board[i].username)
                                    < IndexIn(input, board[j].username)
                /\ (b = "commits" /\ Len(input) = 3
                      /\ [i \in 1..3 |-> BoardValue(b, input[i])] = <<100, 50, 200>>)
                    => /\ [i \in 1..3 |-> board[i].value] = <<200, 100, 50>>
                       /\ [i \in 1..3 |-> board[i].rank] = <<1, 2, 3>>

\* A tie between a follower and a following on the stars board, the
\* follower ahead, and the example of 100, 50, 200 commits
C4_Witness ==
    /\ FullSucceeded
    /\ ghFollowers = <<"bob">>
    /\ ghFollowing = <<"alice">>
    /\ Len(response.body.leaderboards.stars) = 3
    /\ \E i \in 1..2 :
          /\ response.body.leaderboards.stars[i].username = "bob"
          /\ response.body.leaderboards.stars[i + 1].username = "alice"
          /\ response.body.leaderboards.stars[i].value
                = response.body.leaderboards.stars[i + 1].value
    /\ [i \in 1..3 |-> response.body.leaderboards.commits[i].value] = <<200, 100, 50>>
    /\ [i \in 1..3 |-> BoardValue("commits", InputOrder[i])] = <<100, 50, 200>>


\* The tiers of getCommitRank from worst (0) to best (6), and the lowest
\* total commit count of each
Tiers ==
    <<[label |-> "Bottom 30%", from |-> 0],
      [label |-> "Median 50%", from |-> 50],
      [label |-> "Top 25%-30%", from |-> 200],
      [label |-> "Top 10%-15%", from |-> 500],
      [label |-> "Top 5%-10%", from |-> 1000],
      [label |-> "Top 1%-3%", from |-> 2000],
      [label |-> "Top 0.5%-1%", from |-> 5000]>>

IsTier(label) == \E t \in 1..Len(Tiers) : Tiers[t].label = label

TierOf(label) == CHOOSE t \in 1..Len(Tiers) : Tiers[t].label = label

\* C5: getCommitRank is total and non-decreasing in totalCommits: the tier
\* reported for a count x is one of the seven tiers, it is at least the tier
\* of every threshold (50, 200, 500, 1000, 2000, 5000) that x reaches, it is
\* the bottom tier when x is below 50, and it is never better than the tier
\* of a larger count y.
C5_CommitRankIsMonotone ==
    FullSucceeded =>
        LET x == ghUsers[request.username].totalContributions
            rank == response.body.commitRank
        IN  /\ IsTier(rank)
            /\ \A t \in 1..Len(Tiers) : x >= Tiers[t].from => TierOf(rank) >= t
            /\ x < 50 => TierOf(rank) = 1
            /\ \A y \in CommitSamples :
                  x < y => /\ IsTier(getCommitRank(y))
                           /\ TierOf(rank) <= TierOf(getCommitRank(y))

\* A count exactly on a threshold got that threshold's tier
C5_Witness ==
    /\ FullSucceeded
    /\ ghUsers[request.username].totalContributions = 500
    /\ response.body.commitRank = "Top 10%-15%"


\* Sum of the counts of the days at the given positions
CountSum(days, positions) ==
    LET N == Len(days)
        f[i \in 0..N] ==
            IF i = 0 THEN 0
            ELSE f[i - 1] + (IF i \in positions THEN days[i].contributionCount ELSE 0)
    IN  f[N]

WeekdaySum(days, w) == CountSum(days, {i \in 1..Len(days) : days[i].weekday = w})

\* The month (1 = January) the host counts a day in: that of the host's
\* local date at midnight UTC of the day
MonthOf(day) == LocalDateFields(day.date, hostTimeZone)[2]

MonthSum(days, m) == CountSum(days, {i \in 1..Len(days) : MonthOf(days[i]) = m})

TopWeekdays(days) ==
    LET present == {days[i].weekday : i \in 1..Len(days)}
    IN  {w \in present : \A v \in present : WeekdaySum(days, v) <= WeekdaySum(days, w)}

TopMonths(days) ==
    LET present == {MonthOf(days[i]) : i \in 1..Len(days)}
    IN  {m \in present : \A n \in present : MonthSum(days, n) <= MonthSum(days, m)}

ReportedDay ==
    IF IsFull THEN response.body.mostActiveDay ELSE response.body.stats.mostActiveDay

ReportedMonth ==
    IF IsFull THEN response.body.mostActiveMonth
    ELSE response.body.stats.mostActiveMonth

\* The month (1 = January) of the calendar date GitHub gave
CalendarMonthOf(day) == DateFields(day.date)[2]

CalendarMonthSum(days, m) ==
    CountSum(days, {i \in 1..Len(days) : CalendarMonthOf(days[i]) = m})

\* The calendar months of maximal sum
TopCalendarMonths(days) ==
    LET present == {CalendarMonthOf(days[i]) : i \in 1..Len(days)}
    IN  {m \in present :
            \A n \in present : CalendarMonthSum(days, n) <= CalendarMonthSum(days, m)}

\* C6, the buckets: the most active weekday is a weekday whose summed
\* contributionCount is maximal over the weekdays, and the most active month
\* is a calendar month whose summed contributionCount is maximal over the
\* calendar months of the days, reported with that sum.  Which of several
\* tied buckets is reported is left open here.
C6_MostActiveBucketIsMaximal ==
    (FullSucceeded \/ ContributionsSucceeded) =>
        LET days == response.body.calendarData
        IN  /\ \E w \in TopWeekdays(days) : ReportedDay.name = WEEKDAY_NAMES[w + 1]
            /\ \E m \in TopCalendarMonths(days) :
                  /\ ReportedMonth.name = MONTH_NAMES[m]
                  /\ ReportedMonth.commits = CalendarMonthSum(days, m)

\* It holds on a host whose time zone is UTC
C6_MaximalOnUtcHost ==
    hostTimeZone = "UTC" => C6_MostActiveBucketIsMaximal

\* C6, the ties, with the months as the host counts them: among tied buckets
\* the one of the first day encountered is reported.
C6_FirstEncounteredBucketWins ==
    (FullSucceeded \/ ContributionsSucceeded) =>
        LET days == response.body.calendarData
            firstTopDay == days[MinOf({i \in 1..Len(days) :
                                          days[i].weekday \in TopWeekdays(days)})]
            firstTopMonth == days[MinOf({i \in 1..Len(days) :
                                            MonthOf(days[i]) \in TopMonths(days)})]
        IN  /\ ReportedDay.name = WEEKDAY_NAMES[firstTopDay.weekday + 1]
            /\ ReportedMonth.name = MONTH_NAMES[MonthOf(firstTopMonth)]

\* What the handlers report: a bucket of maximal sum, the months being those
\* of the host's local date (MonthOf); among tied weekdays the lowest weekday
\* number; among tied months the progressive revision reports the earliest
\* month of the year, and the full revision reports October, November or
\* December (the earliest of them) when one of them is tied, otherwise the
\* tied month of the first day encountered.
C6_KeyOrderBreaksTies ==
    (FullSucceeded \/ ContributionsSucceeded) =>
        LET days == response.body.calendarData
            late == TopMonths(days) \cap {10, 11, 12}
            firstTopMonth == days[MinOf({i \in 1..Len(days) :
                                            MonthOf(days[i]) \in TopMonths(days)})]
            month == IF IsProgressive THEN MinOf(TopMonths(days))
                     ELSE IF late # {} THEN MinOf(late)
                     ELSE MonthOf(firstTopMonth)
        IN  /\ ReportedDay.name = WEEKDAY_NAMES[MinOf(TopWeekdays(days)) + 1]
            /\ ReportedMonth.name = MONTH_NAMES[month]
            /\ ReportedMonth.commits = MonthSum(days, month)

\* On a host in Atlantic/Azores the commits of 2024-01-01 fall in December
\* and those of 2024-10-01 in October; tied, October is reported
C6_WitnessSeason ==
    /\ ContributionsSucceeded
    /\ hostTimeZone = "Atlantic/Azores"
    /\ Len(response.body.calendarData) = 2
    /\ response.body.calendarData[1] = Day("2024-01-01", 2)
    /\ response.body.calendarData[2] = Day("2024-10-01", 2)
    /\ ReportedMonth = [name |-> "October", commits |-> 2]

\* On a host in America/New_York the only day is 2024-02-01 with 2 commits:
\* January is reported as the most active month, a month without a day
C6_WrongMonth ==
    /\ ContributionsSucceeded
    /\ hostTimeZone = "America/New_York"
    /\ Len(response.body.calendarData) = 1
    /\ response.body.calendarData[1].date = "2024-02-01"
    /\ response.body.calendarData[1].contributionCount = 2
    /\ ReportedMonth = [name |-> "January", commits |-> 2]

\* The same in the full revision
C6_WrongMonthFull ==
    /\ FullSucceeded
    /\ hostTimeZone = "America/New_York"
    /\ Len(response.body.calendarData) = 1
    /\ response.body.calendarData[1].date = "2024-02-01"
    /\ response.body.calendarData[1].contributionCount = 2
    /\ ReportedMonth.name = "January"

\* On that host 1 January with 2 commits and 7 January with 1: December is
\* reported with 2 commits, where January has 3
C6_MonthsMerged ==
    /\ ContributionsSucceeded
    /\ hostTimeZone = "America/New_York"
    /\ Len(response.body.calendarData) = 2
    /\ response.body.calendarData[1] = Day("2024-01-01", 2)
    /\ response.body.calendarData[2] = Day("2024-01-07", 1)
    /\ ReportedMonth = [name |-> "December", commits |-> 2]

\* Thursday 1 February then Tuesday 1 October with equal counts: Tuesday and
\* October are reported, not the buckets encountered first
C6_Witness ==
    /\ FullSucceeded
    /\ Len(response.body.calendarData) = 2
    /\ response.body.calendarData[1].date = "2024-02-01"
    /\ response.body.calendarData[2].date = "2024-10-01"
    /\ response.body.calendarData[1].contributionCount = 1
    /\ response.body.calendarData[2].contributionCount = 1
    /\ response.body.mostActiveDay.name = "Tuesday"
    /\ response.body.mostActiveMonth.name = "October"

\* Number of repositories with a primary language, and where it first occurs
LanguageCount(repos, name) ==
    Cardinality({i \in 1..Len(repos) : repos[i].primaryLanguage = <<name>>})

FirstWith(repos, name) ==
    MinOf({i \in 1..Len(repos) : repos[i].primaryLanguage = <<name>>})

LanguagesOf(repos) ==
    {repos[i].primaryLanguage[1] :
        i \in {j \in 1..Len(repos) : repos[j].primaryLanguage # <<>>}}

\* a is listed before b
Outranks(repos, a, b) ==
    \/ LanguageCount(repos, a) > LanguageCount(repos, b)
    \/ /\ LanguageCount(repos, a) = LanguageCount(repos, b)
       /\ FirstWith(repos, a) < FirstWith(repos, b)

\* C7: starsEarned is the sum of the stargazer counts of all repositories;
\* topLanguages holds each language at most once, the three (or all, when
\* fewer) primary languages that outrank the others by number of
\* repositories, ties by first occurrence, listed in that order; a repository
\* without primary language adds to the stars and to no tally.
C7_StarsAndTopLanguages ==
    FullSucceeded =>
        LET repos == ghUsers[request.username].repositories
            top == response.body.topLanguages
            all == LanguagesOf(repos)
        IN  /\ response.body.starsEarned = StarsOf(request.username)
            /\ Len(top) = MinOf({3, Cardinality(all)})
            /\ Range(top) \subseteq all
            /\ \A i \in 1..Len(top), j \in 1..Len(top) :
                  i < j => Outranks(repos, top[i], top[j])
            /\ \A a \in Range(top), b \in all \ Range(top) : Outranks(repos, a, b)

\* Four languages of one repository each, and one without language: the
\* first three languages are listed, the stars of all repositories counted
C7_Witness ==
    /\ FullSucceeded
    /\ ghUsers[request.username].repositories =
          <<Repo(3, <<"Zig">>), Repo(1, <<>>), Repo(2, <<"Go">>),
            Repo(1, <<"Rust">>)>>
    /\ response.body.topLanguages = <<"Zig", "Go", "Rust">>
    /\ response.body.starsEarned = 7

C7_WitnessCut ==
    /\ FullSucceeded
    /\ Cardinality(LanguagesOf(ghUsers[request.username].repositories)) = 4
    /\ Len(response.body.topLanguages) = 3


\* The logins the progressive network load looks up, from GitHub's lists
ListedOnPage ==
    LET listed == PageOf(ghFollowers, request.page, PER_PAGE)
                    \o PageOf(ghFollowing, request.page, PER_PAGE)
        firsts == SelectSeq([i \in 1..Len(listed) |-> [login |-> listed[i], at |-> i]],
                            LAMBDA e : \A j \in 1..(e.at - 1) : listed[j] # e.login)
    IN  [i \in 1..Len(firsts) |-> firsts[i].login]

SettledBefore(i, j) ==
    \E m \in 1..Len(fetchLog), n \in 1..Len(fetchLog) :
        /\ m < n
        /\ fetchLog[m].kind = "network" /\ fetchLog[m].index = i
        /\ fetchLog[n].kind = "network" /\ fetchLog[n].index = j

\* C8: the per-user fetches settle in any order, and the response does not
\* depend on that order: a successful response is the one computed from the
\* users in input order (the queried user, then the listed logins in listing
\* order), whatever the order of the fetch history.
C8_CompletionOrderIsIrrelevant ==
    /\ FullSucceeded =>
          response =
              FullResponse(ghUsers[request.username],
                  [i \in 1..Len(InputOrder) |->
                      NetworkUserRecord(InputOrder[i], ghUsers[InputOrder[i]])])
    /\ NetworkSucceeded =>
          response.body.networkStats =
              [i \in 1..Len(ListedOnPage) |-> NetworkStat(ghUsers[ListedOnPage[i]])]

\* The second login's fetch settled before the first one's, both users
\* having the same stars, and the first login is still ranked first
C8_Witness ==
    /\ FullSucceeded
    /\ Len(networkLogins) = 2
    /\ AllFetchesSucceeded
    /\ SettledBefore(2, 1)
    /\ StarsOf(networkLogins[1]) = StarsOf(networkLogins[2])
    /\ StarsOf(networkLogins[1]) > StarsOf(request.username)
    /\ response.body.leaderboards.stars[1].username = networkLogins[1]

C8_WitnessNetwork ==
    /\ NetworkSucceeded
    /\ Len(networkLogins) = 2
    /\ SettledBefore(2, 1)

\* The fetches a request has issued when it answers 200
HasSettled(kind, index) ==
    \E i \in 1..Len(fetchLog) : fetchLog[i].kind = kind /\ fetchLog[i].index = index

AllIssuedSettled ==
    /\ IsFull \/ request.loadType = "network" =>
          /\ HasSettled("followers", 0)
          /\ HasSettled("following", 0)
          /\ \A i \in 1..Len(networkLogins) : HasSettled("network", i)
    /\ IsFull => HasSettled("user", 0) /\ networkLogins = [i \in 1..Len(ListedLogins) |-> ListedLogins[i].login]
    /\ NetworkSucceeded => networkLogins = ListedOnPage
    /\ ContributionsSucceeded => HasSettled("contributions", 0)

\* C9 as claimed: when any fetch of the request failed the response is an
\* error, and a successful response comes after every fetch succeeded.
C9_AnyFailureFailsTheRequest ==
    Answered =>
        /\ ~AllFetchesSucceeded => response.status = 500
        /\ response.status = 200 => AllIssuedSettled /\ AllFetchesSucceeded

\* A failure the handler catches: the query for one network member in the
\* full revision
IsCaught(entry) == IsFull /\ entry.kind = "network"

\* C9 amended: a failed fetch makes the response an error, except the query
\* for an individual network member in the full revision, whose failure is
\* caught: that member is left out and the response is still built.  Every
\* successful response is sent after all the fetches the request issued have
\* settled, and ranks the queried user and exactly the members whose query
\* succeeded (the progressive network load lists every member).
C9_UncaughtFailureFailsTheRequest ==
    Answered =>
        /\ (\E i \in 1..Len(fetchLog) : ~fetchLog[i].ok /\ ~IsCaught(fetchLog[i]))
              => response.status = 500
        /\ response.status = 200 =>
              /\ AllIssuedSettled
              /\ \A i \in 1..Len(fetchLog) : fetchLog[i].ok \/ IsCaught(fetchLog[i])
        /\ FullSucceeded =>
              \A b \in Boards :
                  {response.body.leaderboards[b][i].username :
                      i \in 1..Len(response.body.leaderboards[b])}
                    = {request.username} \cup
                      {networkLogins[i] :
                          i \in {j \in 1..Len(networkLogins) : ~FetchFailed("network", j)}}
        /\ NetworkSucceeded =>
              [i \in 1..Len(response.body.networkStats) |->
                  response.body.networkStats[i].username] = networkLogins

\* One of two members' queries failed; the response is successful and ranks
\* the queried user and the other member
C9_Witness ==
    /\ FullSucceeded
    /\ Len(networkLogins) = 2
    /\ FetchFailed("network", 1)
    /\ ~FetchFailed("network", 2)
    /\ Len(response.body.leaderboards.commits) = 2

\* The days in ascending date order
InDateOrder(days) ==
    CHOOSE s \in [1..Len(days) -> Range(days)] :
        /\ Range(s) = Range(days)
        /\ \A i \in 1..Len(s), j \in 1..Len(s) :
              i < j => DateTime(s[i].date) <= DateTime(s[j].date)

\* C10: whatever the order in which GitHub supplies the days, the reported
\* longestStreak is the longest streak of those days in ascending date order.
C10_StreakOfDaysInDateOrder ==
    (FullSucceeded \/ ContributionsSucceeded) =>
        ReportedStreak = LongestRun(InDateOrder(DaysRead(request.username)))

---------------------------------------------------------------------------
(* C11 *)

\* The streak the revision in use computes for a series
StreakOf(days) == IF IsFull THEN maxStreak(days) ELSE progLongestStreak(days)

\* C11: appending a day to a series never decreases longestStreak, raises it
\* by at most 1, and raises it only when the appended day has a non-zero
\* count: checked for every prefix of the series the handler processed, the
\* last of which yields the reported longestStreak.
C11_AppendingADay ==
    (FullSucceeded \/ ContributionsSucceeded) =>
        LET days == response.body.calendarData
        IN  /\ ReportedStreak = StreakOf(days)
            /\ \A k \in 1..Len(days) :
                  LET before == StreakOf(SubSeq(days, 1, k - 1))
                      after == StreakOf(SubSeq(days, 1, k))
                  IN  /\ before <= after
                      /\ after <= before + 1
                      /\ after > before => days[k].contributionCount > 0

\* A series whose last day raised the streak, and one whose last day, having
\* a zero count, left it as it was
C11_Witness ==
    /\ ContributionsSucceeded
    /\ LET days == response.body.calendarData
       IN  /\ Len(days) = 3
           /\ days[3].contributionCount > 0
           /\ ReportedStreak = StreakOf(Front(days)) + 1
           /\ ReportedStreak = 2

C11_WitnessZeroDay ==
    /\ FullSucceeded
    /\ LET days == response.body.calendarData
       IN  /\ Len(days) = 2
           /\ days[2].contributionCount = 0
           /\ ReportedStreak = StreakOf(Front(days))
           /\ ReportedStreak = 1

---------------------------------------------------------------------------
(* The network ranking the leaderboards page asks for.  The page reads
   networkUsers, hasMore, totalUsers, the three averages and networkStats
   from the answer to loadType=network; the handler that produces them is
   not among the source files, so this section follows the specification
   of the aggregator (classifyConnection, computeNetworkAverages, the rank
   of network members). *)

\* Members on one page of the ranking
MembersPerPage == 2

classifyConnection(username, followerSet, followingSet) ==
    IF username \in followerSet /\ username \in followingSet THEN 3
    ELSE IF username \in followerSet THEN 2
    ELSE IF username \in followingSet THEN 1
    ELSE 0

\* The snapshot of one user's statistics, not yet ranked
UserStatsSnapshot(login, followerSet, followingSet) ==
    LET user == ghUsers[login]
    IN  [username |-> login,
         avatarUrl |-> user.avatarUrl,
         totalCommits |-> user.totalContributions,
         longestStreak |-> maxStreak(contributionDays(user)),
         starsEarned |-> totalStars(user.repositories),
         rank |-> 0,
         followers |-> user.followers,
         following |-> user.following,
         commitRank |-> getCommitRank(user.totalContributions),
         connectionType |-> classifyConnection(login, followerSet, followingSet)]

\* The sort key of network members: connectionType descending, then
\* totalCommits descending
RanksBefore(a, b) ==
    \/ a.connectionType > b.connectionType
    \/ a.connectionType = b.connectionType /\ a.totalCommits > b.totalCommits

\* Stable insertion: a member goes behind every member it does not rank before
RECURSIVE InsertMember(_, _)
InsertMember(sorted, member) ==
    IF sorted = <<>> THEN <<member>>
    ELSE IF RanksBefore(member, Last(sorted))
         THEN Append(InsertMember(Front(sorted), member), Last(sorted))
         ELSE Append(sorted, member)

RECURSIVE SortMembers(_)
SortMembers(members) ==
    IF members = <<>> THEN <<>>
    ELSE InsertMember(SortMembers(Front(members)), Last(members))

\* rank is the 1-based position in the sorted order
rankNetworkMembers(members) ==
    LET sorted == SortMembers(members)
    IN  [i \in 1..Len(sorted) |-> [sorted[i] EXCEPT !.rank = i]]

\* A number that need not be whole: num / den with den > 0
Rational(num, den) == [num |-> num, den |-> den]

Zero == Rational(0, 1)

RECURSIVE SumField(_, _)
SumField(users, field) ==
    IF users = <<>> THEN 0
    ELSE SumField(Front(users), field) + Last(users)[field]

\* The arithmetic mean of one field; 0 for no user
MeanOf(users, field) ==
    IF users = <<>> THEN Zero ELSE Rational(SumField(users, field), Len(users))

computeNetworkAverages(users) ==
    [averageCommits |-> MeanOf(users, "totalCommits"),
     averageStreak |-> MeanOf(users, "longestStreak"),
     averageStars |-> MeanOf(users, "starsEarned")]

\* The ranked members of the queried user's network
NetworkMembers ==
    LET logins == RemoveDuplicates(ghFollowers \o ghFollowing)
    IN  rankNetworkMembers(
            [i \in 1..Len(logins) |->
                UserStatsSnapshot(logins[i], Range(ghFollowers), Range(ghFollowing))])

\* The answer to loadType=network for one page of the ranking; the averages
\* are those of the page's users
NetworkUsersResponse(username, page) ==
    LET users == PageOf(NetworkMembers, page, MembersPerPage)
        averages == computeNetworkAverages(users)
    IN  [status |-> 200,
         body |-> [networkUsers |-> users,
                   hasMore |-> page * MembersPerPage < Len(NetworkMembers),
                   totalUsers |-> Len(NetworkMembers),
                   averageCommits |-> averages.averageCommits,
                   averageStreak |-> averages.averageStreak,
                   averageStars |-> averages.averageStars,
                   networkStats |-> UserStatsSnapshot(username, {}, {})]]

\* The same answer without the averages and the total
WithoutAverages(answer) ==
    [answer EXCEPT !.body = [name \in {"networkUsers", "hasMore", "networkStats"}
                                |-> answer.body[name]]]

---------------------------------------------------------------------------
(* The leaderboards page (leaderboards/page.tsx) and the Leaderboard
   component (part_000) *)

\* Pages the model lets the page ask for
MaxPage == 3

\* The variables of the request handler and of its host
handler == <<ghUsers, ghFollowers, ghFollowing, request, pc, userData,
             followersResponse, followingResponse, networkLogins,
             networkUsersData, networkFulfilled, fetchLog, response,
             reposResponse, repoStats, arrivedDuring, hostTimeZone>>

\* The answer of the progressive route to loadType=network when every fetch
\* succeeds
ProgNetworkAnswer(page) ==
    LET logins == networkUserLogins(PageOf(ghFollowers, page, PER_PAGE),
                                    PageOf(ghFollowing, page, PER_PAGE))
        listed == Take(logins, PER_PAGE)
    IN  NetworkResponse([i \in 1..Len(listed) |->
                            Fulfilled(NetworkStat(ghUsers[listed[i]]))],
                        logins, page)

\* What the fetch of /api/stats?username=..&loadType=network&page=.. may
\* resolve to
NetworkAnswers(searchUsername, page) ==
    IF IsFalsy(searchUsername)
    THEN {[status |-> 400, error |-> "Username is required"]}
    ELSE IF searchUsername # Username
    THEN {FailureResponse(message, "Failed to fetch GitHub stats") :
             message \in ErrorMessages}
    ELSE {NetworkUsersResponse(searchUsername, page),
          WithoutAverages(NetworkUsersResponse(searchUsername, page)),
          ProgNetworkAnswer(page)}
         \cup {FailureResponse(message, "Failed to fetch GitHub stats") :
                  message \in ErrorMessages}

\* An average absent from the response is kept as it is
KeepMissing(data, name) == IF name \in DOMAIN data THEN data[name] ELSE Undefined

\* data[name] || 0
OrZero(data, name) ==
    IF name \in DOMAIN data /\ data[name].num # 0 THEN data[name] ELSE Zero

\* data.totalUsers || data.networkUsers.length
totalUsersOf(data) ==
    IF "totalUsers" \in DOMAIN data /\ data.totalUsers # 0
    THEN data.totalUsers
    ELSE Len(data.networkUsers)

\* loadNetworkUsers from the answer of the fetch to the end of finally
loadNetworkUsersSettled(state, page, answer) ==
    IF answer.status # 200
    THEN [state EXCEPT !.error = IF answer.error = "" THEN "Failed to fetch stats"
                                 ELSE answer.error,
                       !.loading = FALSE]
    ELSE IF "networkUsers" \notin DOMAIN answer.body
    THEN [state EXCEPT !.loading = FALSE]
    ELSE LET data == answer.body
             first == page = 1 /\ "networkStats" \in DOMAIN data
         IN  [state EXCEPT
                !.networkUsers = IF page = 1 THEN data.networkUsers
                                 ELSE @ \o data.networkUsers,
                !.hasMore = data.hasMore,
                !.networkStats =
                    IF first
                    THEN [totalUsers |-> totalUsersOf(data),
                          averageCommits |-> OrZero(data, "averageCommits"),
                          averageStreak |-> OrZero(data, "averageStreak"),
                          averageStars |-> OrZero(data, "averageStars"),
                          topLanguages |-> <<>>,
                          currentUser |-> data.networkStats]
                    ELSE @,
                !.applied = IF first THEN data ELSE @,
                !.loaded = Append(@, [page |-> page, users |-> data.networkUsers]),
                !.loading = FALSE]

\* useEffect(..., [networkUsers, hasMore, loading]): after a step that sets
\* networkUsers (to a new array) or changes hasMore or loading, the effect
\* runs again and the observer it creates calls the loadMore of that render,
\* which sends the username the field holds then.  Typing alone does not
\* run the effect again.
LbObserverEffect(before, after, listSet) ==
    IF listSet \/ before.hasMore # after.hasMore \/ before.loading # after.loading
    THEN [after EXCEPT !.observed = after.username]
    ELSE after

\* onChange of the username input
LbSetUsername(value) ==
    /\ value # leaderboardsPage.username
    /\ leaderboardsPage' = [leaderboardsPage EXCEPT !.username = value]
    /\ UNCHANGED <<handler, served, homePage, repositoriesPage, progressiveHome>>

\* handleSubmit -> handleSearch(username) -> loadNetworkUsers(username, 1) up
\* to the fetch; the submit button is disabled while loading
LbHandleSubmit ==
    /\ ~leaderboardsPage.loading
    /\ leaderboardsPage' =
          LbObserverEffect(
              leaderboardsPage,
              [leaderboardsPage EXCEPT
                 !.currentPage = 1,
                 !.networkUsers = <<>>,
                 !.networkStats = JsNull,
                 !.applied = JsNull,
                 !.loaded = <<>>,
                 !.hasMore = TRUE,
                 !.loading = TRUE,
                 !.error = "",
                 !.inFlight = @ (+) SetToBag({[username |-> leaderboardsPage.username,
                                       page |-> 1]})],
              TRUE)
    /\ UNCHANGED <<handler, served, homePage, repositoriesPage, progressiveHome>>

\* loadMore with the username of its closure.  The Load More button and the
\* intersection observer both exist only while networkUsers is not empty,
\* hasMore is true and loading is false.
LbLoadMore(searchUsername) ==
    /\ leaderboardsPage.networkUsers # <<>>
    /\ ~leaderboardsPage.loading
    /\ leaderboardsPage.hasMore
    /\ leaderboardsPage.currentPage < MaxPage
    /\ leaderboardsPage' =
          LbObserverEffect(
              leaderboardsPage,
              [leaderboardsPage EXCEPT
                 !.loading = TRUE,
                 !.error = "",
                 !.inFlight = @ (+) SetToBag({[username |-> searchUsername,
                                       page |-> leaderboardsPage.currentPage + 1]}),
                 !.currentPage = @ + 1],
              FALSE)
    /\ UNCHANGED <<handler, served, homePage, repositoriesPage, progressiveHome>>

\* onClick of the Load More button: the loadMore of the current render
LbLoadMoreClicked == LbLoadMore(leaderboardsPage.username)

\* The trigger element scrolls into view: the observer calls the loadMore of
\* the render that created it
LbLoadMoreObserved == LbLoadMore(leaderboardsPage.observed)

\* The fetch of a request in flight resolves and loadNetworkUsers runs to
\* its end
LbFetchSettled ==
    /\ \E req \in BagToSet(leaderboardsPage.inFlight) :
         \E answer \in NetworkAnswers(req.username, req.page) :
            leaderboardsPage' =
                LbObserverEffect(
                    leaderboardsPage,
                    loadNetworkUsersSettled(
                        [leaderboardsPage EXCEPT !.inFlight = @ (-) SetToBag({req})],
                        req.page, answer),
                    answer.status = 200 /\ "networkUsers" \in DOMAIN answer.body)
    /\ UNCHANGED <<handler, served, homePage, repositoriesPage, progressiveHome>>

\* Usernames typed into the page
LbUsernames == {"", Username, "nobody"}

NextLeaderboards ==
    \/ \E value \in LbUsernames : LbSetUsername(value)
    \/ LbHandleSubmit
    \/ LbLoadMoreClicked
    \/ LbLoadMoreObserved
    \/ LbFetchSettled

\* The network of the queried user: up to MaxFollow followers and as many
\* followed users out of three, whose statistics rank differently by
\* commits, by streak and by stars
LbPool == NetworkPool \cup {"carol"}

InitLeaderboards ==
    /\ ghUsers = [login \in {Username} \cup LbPool |->
                    UserOf(login, CASE login = "alice" -> ProfileA
                                    [] login = "bob" -> ProfileB
                                    [] login = "carol" -> ProfileC
                                    [] OTHER -> ProfileA)]
    /\ ghFollowers \in InjSeqs(LbPool, MaxFollow)
    /\ ghFollowing \in InjSeqs(LbPool, MaxFollow)
    /\ request = ProgRequest("network", 1)
    /\ Fresh
    /\ Unused

SpecLeaderboards == InitLeaderboards /\ [][NextLeaderboards]_vars

\* entries of one board: networkUsers.map(user => ({ ..., value: user[field],
\* rank: user.rank, ... }))
LeaderboardEntries(users, field) ==
    [i \in 1..Len(users) |->
        [username |-> users[i].username, value |-> users[i][field],
         rank |-> users[i].rank, avatarUrl |-> users[i].avatarUrl,
         connectionType |-> users[i].connectionType]]

\* Labels of followers and of followed users exchanged
getConnectionLabelExchanged(connectionType) ==
    CASE connectionType = 3 -> "Mutual"
      [] connectionType = 2 -> "Following"
      [] connectionType = 1 -> "Follower"
      [] OTHER -> ""

getConnectionLabel(connectionType) ==
    CASE connectionType = 3 -> "Mutual"
      [] connectionType = 2 -> "Follower"
      [] connectionType = 1 -> "Following"
      [] OTHER -> ""

\* The badge the Leaderboard component shows next to an entry ("" is none)
ConnectionBadge(entry) ==
    IF entry.connectionType > 0 THEN getConnectionLabel(entry.connectionType)
    ELSE ""

\* The three boards of the page, in the order shown
BoardFields == <<"totalCommits", "longestStreak", "starsEarned">>

ShownBoard(b) == LeaderboardEntries(leaderboardsPage.networkUsers, BoardFields[b])

---------------------------------------------------------------------------
(* C12 *)

\* C12: the connectionType of every network member the page holds is 3 when
\* the member is both a follower of the queried user and followed by them, 2
\* when only a follower, 1 when only followed, 0 otherwise (2 for being a
\* follower plus 1 for being followed), and the badge every board shows for
\* the member reads accordingly; alice with followers {alice, bob} and
\* following {alice} is 3.
C12_ConnectionType ==
    /\ classifyConnection("alice", {"alice", "bob"}, {"alice"}) = 3
    /\ \A b \in 1..Len(BoardFields) :
         \A i \in 1..Len(ShownBoard(b)) :
            LET entry == ShownBoard(b)[i]
                follower == entry.username \in Range(ghFollowers)
                followed == entry.username \in Range(ghFollowing)
            IN  /\ entry.connectionType =
                      (IF follower THEN 2 ELSE 0) + (IF followed THEN 1 ELSE 0)
                /\ ConnectionBadge(entry) =
                      IF follower /\ followed THEN "Mutual"
                      ELSE IF follower THEN "Follower"
                      ELSE IF followed THEN "Following"
                      ELSE ""

\* The example of the claim is on the page: alice is a mutual connection, bob
\* only a follower; and a member that is only followed is on it as well
C12_Witness ==
    /\ Range(ghFollowers) = {"alice", "bob"}
    /\ Range(ghFollowing) = {"alice"}
    /\ \E i, j \in 1..Len(ShownBoard(1)) :
          /\ ShownBoard(1)[i].username = "alice"
          /\ ShownBoard(1)[i].connectionType = 3
          /\ ShownBoard(1)[j].username = "bob"
          /\ ShownBoard(1)[j].connectionType = 2

C12_WitnessFollowing ==
    \E i \in 1..Len(ShownBoard(2)) :
        /\ ShownBoard(2)[i].connectionType = 1
        /\ ConnectionBadge(ShownBoard(2)[i]) = "Following"

---------------------------------------------------------------------------
(* C13 *)

\* The averages of the page and the field of the users each one is about
AverageFields ==
    {<<"averageCommits", "totalCommits">>, <<"averageStreak", "longestStreak">>,
     <<"averageStars", "starsEarned">>}

\* What the page prints for an average: Math.round(networkStats[name])
DisplayedAverage(name) ==
    MathRound(leaderboardsPage.networkStats[name].num,
              leaderboardsPage.networkStats[name].den)

\* C13: whenever the page holds network statistics, each of averageCommits,
\* averageStreak and averageStars is a number: the arithmetic mean of
\* totalCommits, longestStreak and starsEarned over the users the response
\* supplied, and 0 when it supplied no user or carried no average; what the
\* page prints is then a whole number, never NaN.
C13_NetworkAverages ==
    leaderboardsPage.networkStats # JsNull =>
        LET data == leaderboardsPage.applied
            users == data.networkUsers
        IN  \A pair \in AverageFields :
               LET shown == leaderboardsPage.networkStats[pair[1]]
               IN  /\ shown # Undefined
                   /\ shown.den > 0
                   /\ DisplayedAverage(pair[1]) \in Nat
                   /\ IF users = <<>> \/ pair[1] \notin DOMAIN data
                      THEN shown.num = 0
                      ELSE shown.num * Len(users) =
                              SumField(users, pair[2]) * shown.den

\* The page holds the means of two users, that of the streaks not being a
\* whole number
C13_Witness ==
    /\ leaderboardsPage.networkStats # JsNull
    /\ Len(leaderboardsPage.applied.networkUsers) = 2
    /\ leaderboardsPage.networkStats.averageCommits = Rational(150, 2)
    /\ leaderboardsPage.networkStats.averageStreak = Rational(3, 2)
    /\ DisplayedAverage("averageStreak") = 2

\* A response without averages was applied
C13_WitnessMissing ==
    /\ leaderboardsPage.networkStats # JsNull
    /\ leaderboardsPage.applied.networkUsers # <<>>
    /\ "averageCommits" \notin DOMAIN leaderboardsPage.applied
    /\ leaderboardsPage.networkStats.averageCommits = Zero

\* A response with an empty user set was applied
C13_WitnessEmpty ==
    /\ leaderboardsPage.networkStats # JsNull
    /\ leaderboardsPage.applied.networkUsers = <<>>
    /\ "averageStars" \in DOMAIN leaderboardsPage.applied
    /\ leaderboardsPage.networkStats.averageStars = Zero

---------------------------------------------------------------------------
(* C14 *)

InitialSucceeded ==
    Succeeded /\ IsProgressive /\ loadTypeOf(request) = "initial"

\* The tier the fixed thresholds give a total commit count: the last tier
\* whose threshold the count reaches
TierOfCount(x) == MaxOf({t \in 1..Len(Tiers) : x >= Tiers[t].from})

\* C14: every commitRank the API returns for a user (in the full response and
\* in the response of the initial load) is the tier the fixed thresholds give
\* that user's total commit count, so that equal totals get equal ranks.
C14_CommitRankFromTotalCommits ==
    (FullSucceeded \/ InitialSucceeded) =>
        LET x == ghUsers[request.username].totalContributions
            rank == response.body.commitRank
        IN  /\ IsTier(rank)
            /\ TierOf(rank) = TierOfCount(x)

\* The full revision alone does derive commitRank from the total commit count
C14_FullRevisionOnly ==
    FullSucceeded =>
        LET x == ghUsers[request.username].totalContributions
            rank == response.body.commitRank
        IN  IsTier(rank) /\ TierOf(rank) = TierOfCount(x)

---------------------------------------------------------------------------
(* C15: one server answering requests, one after another and concurrently *)

\* Requests the server is sent
ServerRequests ==
    {FullRequest, [FullRequest EXCEPT !.username = ""],
     [ProgRequest("network", 1) EXCEPT !.username = ""]}
    \cup {ProgRequest(loadType, 1) :
             loadType \in {"initial", "contributions", "repositories",
                           "network", "unknown"}}

\* Invocations of GET the model lets one server hold
MaxRequests == 2

\* The bindings of the invocation of GET whose code runs: its request, its
\* position and every const and let of the handler, and with them the
\* history of the invocation (fetchLog, arrivedDuring).  Outside GET the
\* routes declare the GitHub client, PER_PAGE and the tables of names, and
\* nothing that is assigned to.
Invocation ==
    [request |-> request, pc |-> pc, userData |-> userData,
     followersResponse |-> followersResponse,
     followingResponse |-> followingResponse,
     networkLogins |-> networkLogins, networkUsersData |-> networkUsersData,
     networkFulfilled |-> networkFulfilled, fetchLog |-> fetchLog,
     response |-> response, reposResponse |-> reposResponse,
     repoStats |-> repoStats, arrivedDuring |-> arrivedDuring]

\* The bindings of an invocation that was entered and has not run yet
Entered(req, during) ==
    [request |-> req, pc |-> "start", userData |-> Absent,
     followersResponse |-> Absent, followingResponse |-> Absent,
     networkLogins |-> <<>>, networkUsersData |-> <<>>,
     networkFulfilled |-> 0, fetchLog |-> <<>>, response |-> NoResponse,
     reposResponse |-> Absent, repoStats |-> <<>>, arrivedDuring |-> during]

\* The code that runs next is that of the invocation with these bindings
Runs(frame) ==
    /\ request' = frame.request
    /\ pc' = frame.pc
    /\ userData' = frame.userData
    /\ followersResponse' = frame.followersResponse
    /\ followingResponse' = frame.followingResponse
    /\ networkLogins' = frame.networkLogins
    /\ networkUsersData' = frame.networkUsersData
    /\ networkFulfilled' = frame.networkFulfilled
    /\ fetchLog' = frame.fetchLog
    /\ response' = frame.response
    /\ reposResponse' = frame.reposResponse
    /\ repoStats' = frame.repoStats
    /\ arrivedDuring' = frame.arrivedDuring

\* The invocations that have not answered yet
Unanswered ==
    {k \in 1..Len(served) : served[k].pc # "done"}
    \cup (IF pc # "done" THEN {0} ELSE {})

\* A request arrives, while the invocation that ran awaits a fetch or after
\* it has answered: GET is entered again, and every const and let of it is
\* a new one.  The bindings of the other invocation stay as they are.
NextRequest ==
    /\ Len(served) + 1 < MaxRequests
    /\ \E req \in ServerRequests : Runs(Entered(req, Cardinality(Unanswered)))
    /\ served' = Append(served, Invocation)
    /\ UNCHANGED <<ghUsers, ghFollowers, ghFollowing, leaderboardsPage, homePage,
                   repositoriesPage, progressiveHome, hostTimeZone>>

\* The invocation that ran awaits a fetch or has answered, and the event
\* loop turns to another invocation that has not answered: the fetch it
\* awaited settles next, or it starts
Resumed(k) ==
    /\ k \in 1..Len(served)
    /\ served[k].pc # "done"
    /\ Runs(served[k])
    /\ served' = [served EXCEPT ![k] = Invocation]
    /\ UNCHANGED <<ghUsers, ghFollowers, ghFollowing, leaderboardsPage, homePage,
                   repositoriesPage, progressiveHome, hostTimeZone>>

InitServer ==
    /\ ghUsers = [login \in {Username} \cup NetworkPool |->
                    UserOf(login, IF login = "bob" THEN ProfileB ELSE ProfileA)]
    /\ ghFollowers = <<"alice">>
    /\ ghFollowing = <<"bob">>
    /\ request \in ServerRequests
    /\ Fresh
    /\ Unused

NextServer ==
    \/ FullNext
    \/ ProgNext
    \/ NextRequest
    \/ \E k \in 1..Len(served) : Resumed(k)

SpecServer == InitServer /\ [][NextServer]_vars

\* The invocations that have answered so far
AnsweredSoFar ==
    SelectSeq(Append(served, Invocation), LAMBDA frame : frame.pc = "done")

\* C15: nothing derived persists from one request to the next or passes
\* between requests handled at the same time: two answered requests with
\* the same parameters whose fetches yielded the same results (GitHub's data
\* being the same) received identical responses, whatever other request the
\* server answered before, in between or concurrently.
C15_ResponseDependsOnRequestAndDataOnly ==
    \A i, j \in 1..Len(AnsweredSoFar) :
        LET a == AnsweredSoFar[i]
            b == AnsweredSoFar[j]
        IN  a.request = b.request /\ Range(a.fetchLog) = Range(b.fetchLog)
               => a.response = b.response

\* The same request was answered twice with the same fetch results, and
\* successfully, by two invocations that ran concurrently: the one arrived
\* while the other had not answered, and their fetches settled in different
\* orders
C15_Witness ==
    /\ Len(AnsweredSoFar) = 2
    /\ AnsweredSoFar[1].request = FullRequest
    /\ AnsweredSoFar[2].request = FullRequest
    /\ Range(AnsweredSoFar[1].fetchLog) = Range(AnsweredSoFar[2].fetchLog)
    /\ AnsweredSoFar[1].fetchLog # AnsweredSoFar[2].fetchLog
    /\ AnsweredSoFar[2].response.status = 200
    /\ Len(AnsweredSoFar[2].response.body.leaderboards.commits) = 3
    /\ \E i \in 1..2 : AnsweredSoFar[i].arrivedDuring = 1

\* Two invocations for the same request both await their per-login queries,
\* one query of each has settled
C15_WitnessInterleaved ==
    /\ Len(served) = 1
    /\ request = FullRequest
    /\ served[1].request = FullRequest
    /\ pc = "awaitNetwork"
    /\ served[1].pc = "awaitNetwork"
    /\ networkFulfilled = 1
    /\ served[1].networkFulfilled = 1

\* A request was answered after a different one had been answered
C15_WitnessAfterAnother ==
    /\ Len(AnsweredSoFar) = 2
    /\ AnsweredSoFar[1].request = FullRequest
    /\ AnsweredSoFar[1].response.status = 200
    /\ AnsweredSoFar[2].request = ProgRequest("network", 1)
    /\ AnsweredSoFar[2].response.status = 200
    /\ AnsweredSoFar[2].arrivedDuring = 0

---------------------------------------------------------------------------
(* C16 *)

\* C16: for every non-empty series processed, the commits figure of the most
\* active weekday is a whole number no further than 1/2 from that weekday's
\* summed count divided by (number of days / 7), the weekday's sum being the
\* largest of all weekdays'.  With n days, sum s and figure c:
\* |c - 7s/n| <= 1/2, i.e. |2cn - 14s| <= n.
C16_WeekdayAverage ==
    (FullSucceeded \/ ContributionsSucceeded) =>
        LET days == response.body.calendarData
            n == Len(days)
            c == ReportedDay.commits
        IN  /\ n > 0
            /\ c \in Nat
            /\ \E w \in TopWeekdays(days) :
                  LET s == WeekdaySum(days, w)
                  IN  /\ ReportedDay.name = WEEKDAY_NAMES[w + 1]
                      /\ 2 * c * n - 14 * s <= n
                      /\ 14 * s - 2 * c * n <= n

\* Three days, the busiest weekday summing to 2: 2 / (3 / 7) = 4.67 is
\* reported as 5
C16_Witness ==
    /\ ContributionsSucceeded
    /\ Len(response.body.calendarData) = 3
    /\ \E w \in TopWeekdays(response.body.calendarData) :
          WeekdaySum(response.body.calendarData, w) = 2
    /\ ReportedDay.commits = 5

\* Rounded down: 1 / (3 / 7) = 2.33 is reported as 2
C16_WitnessDown ==
    /\ FullSucceeded
    /\ Len(response.body.calendarData) = 3
    /\ ReportedDay.commits = 2

---------------------------------------------------------------------------
(* C17 *)

\* C17: on each of the three boards of the leaderboards page no two entries
\* have the same rank, and an entry with a larger rank never shows a larger
\* value, after the first page and after every appended page.
C17_BoardsRankedByValue ==
    \A b \in 1..Len(BoardFields) :
        \A i, j \in 1..Len(ShownBoard(b)) :
            /\ i # j => ShownBoard(b)[i].rank # ShownBoard(b)[j].rank
            /\ ShownBoard(b)[i].rank < ShownBoard(b)[j].rank
                  => ShownBoard(b)[i].value >= ShownBoard(b)[j].value

\* The ranks alone: no two entries of a board share one after the first page
C17_RanksDistinctOnFirstPage ==
    leaderboardsPage.currentPage = 1 =>
        \A b \in 1..Len(BoardFields) :
            \A i, j \in 1..Len(ShownBoard(b)) :
                i # j => ShownBoard(b)[i].rank # ShownBoard(b)[j].rank

---------------------------------------------------------------------------
(* C18 *)

\* The text the catch block of the revision in use falls back to
DefaultErrorText ==
    IF IsFull THEN "Failed to fetch GitHub statistics"
    ELSE "Failed to fetch GitHub stats"

\* The processing code throws: every fetch is in and there is no day to read
\* the most active weekday from
ProcessingThrew ==
    /\ Answered
    /\ ~IsFalsy(request.username)
    /\ IsFull \/ loadTypeOf(request) = "contributions"
    /\ \A i \in 1..Len(fetchLog) : fetchLog[i].ok \/ IsCaught(fetchLog[i])
    /\ DaysRead(request.username) = <<>>

\* Messages of the errors thrown while the request was handled: by any fetch,
\* or by the processing code
ThrownMessages ==
    {fetchLog[i].message : i \in {k \in 1..Len(fetchLog) : ~fetchLog[k].ok}}
    \cup (IF ProcessingThrew THEN {TypeErrorMessage} ELSE {})

\* Those among them that reach the catch block of the handler
MessagesReachingCatch ==
    {fetchLog[i].message :
        i \in {k \in 1..Len(fetchLog) : ~fetchLog[k].ok /\ ~IsCaught(fetchLog[k])}}
    \cup (IF ProcessingThrew THEN {TypeErrorMessage} ELSE {})

ErrorTextFor(message) == IF message = "" THEN DefaultErrorText ELSE message

\* C18: every error thrown while a stats request is handled, by the GitHub
\* client or by the processing code, makes the response an HTTP 500 whose
\* error field is the thrown message unmodified, or the default text when
\* the message is empty; no such error yields a 200.
C18_EveryErrorIs500 ==
    Answered =>
        \A message \in ThrownMessages :
            /\ response.status = 500
            /\ response.error = ErrorTextFor(message)

\* C18 amended: every error that reaches the catch block of the handler makes
\* the response an HTTP 500 whose error field is the thrown message
\* unmodified, or the default text when the message is empty, and a 500 is
\* sent for no other reason; the error of a query for an individual network
\* member in the full revision does not reach it and leaves the response as
\* it would be without that member.
C18_ErrorReachingCatchIs500 ==
    Answered =>
        /\ \A message \in MessagesReachingCatch :
              /\ response.status = 500
              /\ response.error = ErrorTextFor(message)
        /\ response.status = 500 => MessagesReachingCatch # {}
        /\ MessagesReachingCatch = {} /\ ~IsFalsy(request.username)
           /\ (IsProgressive =>
                  loadTypeOf(request) \in {"initial", "contributions",
                                           "repositories", "network"})
              => response.status = 200

\* A fetch threw "Not Found" and the response carries that text; the empty
\* message is witnessed apart
C18_Witness ==
    /\ Answered
    /\ \E i \in 1..Len(fetchLog) :
          /\ ~fetchLog[i].ok
          /\ ~IsCaught(fetchLog[i])
          /\ fetchLog[i].message = "Not Found"
    /\ response = [status |-> 500, error |-> "Not Found"]

C18_WitnessDefaultText ==
    /\ Answered
    /\ IsProgressive
    /\ \E i \in 1..Len(fetchLog) : ~fetchLog[i].ok /\ fetchLog[i].message = ""
    /\ response = [status |-> 500, error |-> "Failed to fetch GitHub stats"]

C18_WitnessProcessing ==
    /\ ProcessingThrew
    /\ response = [status |-> 500, error |-> TypeErrorMessage]

C18_WitnessCaught ==
    /\ Answered
    /\ \E i \in 1..Len(fetchLog) : ~fetchLog[i].ok /\ IsCaught(fetchLog[i])
    /\ response.status = 200

---------------------------------------------------------------------------
(* C19 *)

\* No call of the GitHub client was made: the handler never got to an await
\* and no promise exists
NoGitHubCall ==
    /\ pc \in {"start", "done"}
    /\ fetchLog = <<>>
    /\ userData = Absent
    /\ followersResponse = Absent
    /\ followingResponse = Absent
    /\ reposResponse = Absent
    /\ networkUsersData = <<>>
    /\ repoStats = <<>>

LoadTypes == {"initial", "contributions", "repositories", "network"}

\* The username parameter is missing or empty
NoUsername == request.username = ""

InvalidLoadType ==
    /\ IsProgressive
    /\ ~NoUsername
    /\ request.loadType \notin LoadTypes \cup {""}

\* C19: a request whose username is missing or empty is answered 400 with an
\* error in the body, and no GitHub API call is made for it; a request to
\* the progressive route whose loadType is none of initial, contributions,
\* repositories, network is answered 400 'Invalid load type' (a loadType that
\* is missing or empty counts as initial); and no other request is
\* answered 400.
C19_RefusedRequests ==
    /\ NoUsername =>
          /\ NoGitHubCall
          /\ Answered =>
                response = [status |-> 400,
                            error |-> IF IsFull THEN "Username parameter is required"
                                      ELSE "Username is required"]
    /\ InvalidLoadType =>
          /\ NoGitHubCall
          /\ Answered => response = [status |-> 400, error |-> "Invalid load type"]
    /\ Answered /\ response.status = 400 =>
          NoUsername \/ InvalidLoadType

\* A request without a username, for a load the route knows, was refused
C19_Witness ==
    /\ Answered
    /\ IsProgressive
    /\ request.username = ""
    /\ request.loadType = "network"
    /\ response.status = 400
    /\ NoGitHubCall

C19_WitnessLoadType ==
    /\ Answered
    /\ request.loadType = "Initial"
    /\ response = [status |-> 400, error |-> "Invalid load type"]

\* A request without loadType was handled as the initial load
C19_WitnessDefaultLoadType ==
    /\ Answered
    /\ IsProgressive
    /\ request.loadType = ""
    /\ response.status = 200
    /\ response.body.commitRank = "Top 1%"

---------------------------------------------------------------------------
(* The home page that loads progressively (page.tsx, Home with loadData(type)).
   Beside the state of its useState calls the page record holds the fetches
   in flight and, as history, the number of submits so far and the submit
   whose response each part of stats came from (0 is none). *)

\* Submits the model lets the user make
MaxSubmits == 2

\* Usernames typed into the page
HomeUsernames == {Username, "alice"}

\* What the fetch of /api/stats?username=..&loadType=.. may resolve to: the
\* answer of the progressive route when its fetches succeed, or its 500.  The
\* follower and following lists of the model are those of Username; GitHub
\* lists none for anyone else.
HomeAnswers(type, searchUsername) ==
    IF IsFalsy(searchUsername)
    THEN {[status |-> 400, error |-> "Username is required"]}
    ELSE
    (IF searchUsername \notin DOMAIN ghUsers THEN {}
     ELSE IF type = "initial"
     THEN {InitialResponse(ghUsers[searchUsername],
                           PageOf(ghUsers[searchUsername].repositories, 1,
                                  INITIAL_PER_PAGE))}
     ELSE IF type = "contributions"
     THEN {ContributionsResponse(ghUsers[searchUsername])}
     ELSE IF searchUsername = Username THEN {ProgNetworkAnswer(1)}
     ELSE {NetworkResponse(<<>>, <<>>, 1)})
    \cup {FailureResponse(message, "Failed to fetch GitHub stats") :
             message \in ErrorMessages}

\* An assignment of the new properties alone, without the spread of prev
WithoutSpread(prev, extra) == extra

\* { ...prev, ...extra }
Spread(prev, extra) ==
    [key \in DOMAIN prev \cup DOMAIN extra |->
        IF key \in DOMAIN extra THEN extra[key] ELSE prev[key]]

\* The stats after a contributions response is merged: prev && ({ ...prev,
\* ...data.stats, calendarData: data.calendarData })
MergeContributions(prev, data) ==
    IF prev = JsNull THEN JsNull
    ELSE Spread(Spread(prev, data.stats), [calendarData |-> data.calendarData])

\* prev && ({ ...prev, networkStats: data.networkStats })
MergeNetwork(prev, data) ==
    IF prev = JsNull THEN JsNull
    ELSE Spread(prev, [networkStats |-> data.networkStats])

\* loadData(type) up to the fetch, for the username the submit was made with
loadDataStarted(state, type, searchUsername, submit) ==
    [state EXCEPT !.loading[type] = TRUE,
                  !.error = "",
                  !.inFlight = @ (+) SetToBag({[type |-> type, username |-> searchUsername,
                                        submit |-> submit]})]

\* onChange of the username input
HomeSetUsername(value) ==
    /\ value # homePage.username
    /\ homePage' = [homePage EXCEPT !.username = value]
    /\ UNCHANGED <<handler, served, leaderboardsPage, repositoriesPage,
                   progressiveHome>>

\* A submit that starts the three loads at once
HomeHandleSubmitAll ==
    /\ ~homePage.loading.initial
    /\ homePage.submits < MaxSubmits
    /\ homePage' =
          loadDataStarted(
              loadDataStarted(
                  loadDataStarted(
                      [homePage EXCEPT !.stats = JsNull,
                                       !.submits = @ + 1,
                                       !.origin = [initial |-> 0, contributions |-> 0,
                                                   network |-> 0]],
                      "initial", homePage.username, homePage.submits + 1),
                  "contributions", homePage.username, homePage.submits + 1),
              "network", homePage.username, homePage.submits + 1)
    /\ UNCHANGED <<handler, served, leaderboardsPage, repositoriesPage,
                   progressiveHome>>

\* handleSubmit: setStats(null), then loadData('initial') up to the fetch; the
\* submit button is disabled while loading.initial
HomeHandleSubmit ==
    /\ ~homePage.loading.initial
    /\ homePage.submits < MaxSubmits
    /\ homePage' =
          loadDataStarted(
              [homePage EXCEPT !.stats = JsNull,
                               !.submits = @ + 1,
                               !.origin = [initial |-> 0, contributions |-> 0,
                                           network |-> 0]],
              "initial", homePage.username, homePage.submits + 1)
    /\ UNCHANGED <<handler, served, leaderboardsPage, repositoriesPage,
                   progressiveHome>>

\* loadData from the answer of the fetch to the end of finally
loadDataSettled(state, req, answer) ==
    LET done == [state EXCEPT !.loading[req.type] = FALSE]
    IN  IF answer.status # 200
        THEN [done EXCEPT !.error = IF answer.error = "" THEN "Failed to fetch stats"
                                    ELSE answer.error]
        ELSE IF req.type = "initial"
        THEN IF "username" \in DOMAIN answer.body
             THEN loadDataStarted(
                      loadDataStarted(
                          [done EXCEPT !.stats = answer.body,
                                       !.origin = [initial |-> req.submit,
                                                   contributions |-> 0,
                                                   network |-> 0]],
                          "contributions", req.username, req.submit),
                      "network", req.username, req.submit)
             ELSE done
        ELSE IF req.type = "contributions"
        THEN [done EXCEPT !.stats = MergeContributions(@, answer.body),
                          !.origin.contributions =
                              IF state.stats = JsNull THEN @ ELSE req.submit]
        ELSE IF "networkStats" \in DOMAIN answer.body
        THEN [done EXCEPT !.stats = MergeNetwork(@, answer.body),
                          !.origin.network =
                              IF state.stats = JsNull THEN @ ELSE req.submit]
        ELSE done

\* The fetch of a request in flight resolves and loadData runs to its end
HomeFetchSettled ==
    /\ \E req \in BagToSet(homePage.inFlight) :
         \E answer \in HomeAnswers(req.type, req.username) :
            homePage' = loadDataSettled([homePage EXCEPT !.inFlight = @ (-) SetToBag({req})],
                                        req, answer)
    /\ UNCHANGED <<handler, served, leaderboardsPage, repositoriesPage,
                   progressiveHome>>

NextHome ==
    \/ \E value \in HomeUsernames : HomeSetUsername(value)
    \/ HomeHandleSubmit
    \/ HomeFetchSettled

InitHome ==
    /\ ghUsers = [login \in {Username} \cup NetworkPool |->
                    UserOf(login, IF login = "alice" THEN ProfileB ELSE ProfileA)]
    /\ ghFollowers = <<"alice">>
    /\ ghFollowing = <<"bob">>
    /\ request = ProgRequest("initial", 1)
    /\ Fresh
    /\ Unused

SpecHome == InitHome /\ [][NextHome]_vars

---------------------------------------------------------------------------
(* C20 *)

\* C20: the stats the home page shows come from responses to the most recent
\* submit: no part of them (the basic stats, the merged contributions, the
\* merged network) comes from the response to a request of an earlier submit.
C20_StatsFromMostRecentSubmit ==
    homePage.stats # JsNull =>
        \A part \in {"initial", "contributions", "network"} :
            homePage.origin[part] \in {0, homePage.submits}

\* What does hold: the basic stats are those of the most recent submit
C20_BasicStatsFromMostRecentSubmit ==
    homePage.stats # JsNull => homePage.origin.initial = homePage.submits

\* The page shows alice's basic stats with the commit total of octocat, whose
\* contributions response arrived after alice was submitted
C20_StaleMerge ==
    /\ homePage.stats # JsNull
    /\ homePage.stats.username = "alice"
    /\ homePage.origin.initial = 2
    /\ homePage.origin.contributions = 1
    /\ homePage.stats.totalCommits = ghUsers[Username].totalContributions
    /\ homePage.stats.totalCommits # ghUsers["alice"].totalContributions

---------------------------------------------------------------------------
(* C21 *)

\* The requests a step of the home page sends and those it sees answered
HomeSent == BagToSet(homePage'.inFlight (-) homePage.inFlight)

HomeSettled == BagToSet(homePage.inFlight (-) homePage'.inFlight)

\* C21: on the home page a contributions or network load is started only in
\* the step in which the initial load of the same submit, for the same
\* username, is answered successfully (its body, which carries a username,
\* becomes the stats), and then both are started; and the step in which an
\* initial load is answered with a failure starts no load, sets the error
\* message and leaves stats null.
C21_LoadsFollowInitialSuccess ==
    [][/\ \A req \in HomeSent :
             req.type # "initial" =>
                /\ \E first \in HomeSettled :
                      /\ first.type = "initial"
                      /\ first.submit = req.submit
                      /\ first.username = req.username
                /\ homePage'.stats # JsNull
                /\ homePage'.stats.username = req.username
                /\ {sent.type : sent \in HomeSent} = {"contributions", "network"}
       /\ \A first \in HomeSettled :
             first.type = "initial" =>
                \/ /\ homePage'.stats # JsNull
                   /\ {sent.type : sent \in HomeSent} = {"contributions", "network"}
                \/ /\ HomeSent = {}
                   /\ homePage'.error # ""
                   /\ homePage.stats = JsNull
                   /\ homePage'.stats = JsNull
                   /\ ~homePage'.loading.initial]_vars

\* The initial load of the second submit succeeded and its two loads are in
\* flight
C21_Witness ==
    /\ homePage.submits = 2
    /\ homePage.stats # JsNull
    /\ [type |-> "contributions", username |-> homePage.stats.username,
        submit |-> 2] \in BagToSet(homePage.inFlight)
    /\ [type |-> "network", username |-> homePage.stats.username,
        submit |-> 2] \in BagToSet(homePage.inFlight)

\* An initial load failed: nothing is in flight, the error is shown and
\* there are no stats
C21_WitnessFailure ==
    /\ homePage.submits = 1
    /\ homePage.inFlight = EmptyBag
    /\ homePage.error = "Not Found"
    /\ homePage.stats = JsNull

---------------------------------------------------------------------------
(* C22 *)

\* The properties of stats a contributions response replaces
ContributionFields ==
    {"totalCommits", "longestStreak", "mostActiveDay", "mostActiveMonth",
     "calendarData"}

\* after agrees with before on every property of before outside replaced,
\* and has no property outside replaced that before lacks
OnlyReplaces(before, after, replaced) ==
    /\ after # JsNull
    /\ DOMAIN after \subseteq DOMAIN before \cup replaced
    /\ \A key \in DOMAIN before \ replaced :
          key \in DOMAIN after /\ after[key] = before[key]

\* C22: when a contributions response is merged into the stats of the home
\* page only totalCommits, longestStreak, mostActiveDay, mostActiveMonth and
\* calendarData are replaced, by the values of the response, and username,
\* avatarUrl, followers, following, starsEarned, commitRank and networkStats
\* stay as they are; when a network response is merged only networkStats
\* changes; and a response that arrives while stats is null leaves it null.
C22_MergeFrame ==
    [][\A req \in HomeSettled :
          req.type # "initial" =>
             IF homePage.stats = JsNull THEN homePage'.stats = JsNull
             ELSE \/ homePage'.stats = homePage.stats
                  \/ /\ req.type = "contributions"
                     /\ OnlyReplaces(homePage.stats, homePage'.stats,
                                     ContributionFields)
                     /\ LET data == ContributionsResponse(ghUsers[req.username]).body
                        IN  /\ homePage'.stats.calendarData = data.calendarData
                            /\ \A key \in ContributionFields \ {"calendarData"} :
                                  homePage'.stats[key] = data.stats[key]
                  \/ /\ req.type = "network"
                     /\ OnlyReplaces(homePage.stats, homePage'.stats,
                                     {"networkStats"})
                     /\ "networkStats" \in DOMAIN homePage'.stats]_vars

\* Both responses of a submit have been merged into its basic stats: the
\* placeholders are gone, the calendar and the network are there, and the
\* basic fields are still those of the initial response
C22_Witness ==
    /\ homePage.stats # JsNull
    /\ homePage.origin = [initial |-> 1, contributions |-> 1, network |-> 1]
    /\ {"calendarData", "networkStats"} \subseteq DOMAIN homePage.stats
    /\ homePage.stats.totalCommits > 0
    /\ homePage.stats.mostActiveDay.name # "Loading..."
    /\ homePage.stats.username = Username
    /\ homePage.stats.commitRank =
          InitialResponse(ghUsers[Username],
                          ghUsers[Username].repositories).body.commitRank

\* The second submit has set stats to null and only its initial load is
\* outstanding: whatever the first submit's loads were answered with, and
\* whenever, stats is null
C22_WitnessNull ==
    /\ homePage.submits = 2
    /\ homePage.stats = JsNull
    /\ homePage.error = ""
    /\ \A req \in BagToSet(homePage.inFlight) : req.type = "initial" /\ req.submit = 2
    /\ homePage.inFlight # EmptyBag
    /\ ~homePage.loading.contributions

---------------------------------------------------------------------------
(* The repositories page: RepositoriesPage in the browser, talking to the
   repositories load of the progressive route *)

\* A list of count repositories
RepoListOf(count, stars) ==
    [i \in 1..count |-> Repo(stars, IF i % 2 = 0 THEN <<"Go">> ELSE <<"C">>)]

\* Numbers of repositories around the page size
RepoCounts == {0, 1, PER_PAGE, PER_PAGE + 1, 2 * PER_PAGE}

\* The answer of the repositories load when every fetch of it succeeds
ProgRepositoriesAnswer(searchUsername, page) ==
    LET listed == PageOf(ghUsers[searchUsername].repositories, page, PER_PAGE)
    IN  RepositoriesResponse([i \in 1..Len(listed) |->
                                 Fulfilled(RepoStat(listed[i], i, page))],
                             listed, page)

\* What the fetch of /api/stats?username=..&loadType=repositories&page=..
\* may resolve to
RepositoriesAnswers(searchUsername, page) ==
    IF IsFalsy(searchUsername)
    THEN {[status |-> 400, error |-> "Username is required"]}
    ELSE (IF searchUsername \in DOMAIN ghUsers
          THEN {ProgRepositoriesAnswer(searchUsername, page)} ELSE {})
         \cup {FailureResponse(message, "Failed to fetch GitHub stats") :
             message \in ErrorMessages}

\* loadRepositories(searchUsername, page) up to the fetch
loadRepositoriesStarted(state, searchUsername, page) ==
    [state EXCEPT !.loading = TRUE,
                  !.error = "",
                  !.inFlight = @ (+) SetToBag({[username |-> searchUsername, page |-> page]}),
                  !.requested = Append(@, page)]

\* A history of requests without its last request of a page
RECURSIVE WithoutLast(_, _)
WithoutLast(requested, page) ==
    IF requested = <<>> THEN <<>>
    ELSE IF Last(requested) = page THEN Front(requested)
    ELSE Append(WithoutLast(Front(requested), page), Last(requested))

\* loadRepositories from the answer of the fetch to the end of finally
loadRepositoriesSettled(state, page, answer) ==
    IF answer.status # 200
    THEN [state EXCEPT !.error = IF answer.error = ""
                                 THEN "Failed to fetch repositories"
                                 ELSE answer.error,
                       !.requested = WithoutLast(@, page),
                       !.loading = FALSE]
    ELSE LET data == answer.body
             newRepos == IF "repositories" \in DOMAIN data
                         THEN data.repositories ELSE <<>>
         IN  [state EXCEPT
                !.allLanguages =
                    @ \cup UNION {Range(newRepos[i].languages) :
                                     i \in 1..Len(newRepos)},
                !.repositories = IF page = 1 THEN newRepos ELSE @ \o newRepos,
                !.hasMore = "hasMore" \in DOMAIN data /\ data.hasMore,
                !.currentPage = IF "nextPage" \in DOMAIN data /\ data.nextPage # 0
                                THEN data.nextPage ELSE page + 1,
                !.loaded = Append(@, [page |-> page, repositories |-> newRepos]),
                !.loading = FALSE]

\* useEffect(..., [repositories, hasMore, loading]): as on the leaderboards
\* page, the observer calls the loadMore of the render in which the effect
\* last ran
RpObserverEffect(before, after, listSet) ==
    IF listSet \/ before.hasMore # after.hasMore \/ before.loading # after.loading
    THEN [after EXCEPT !.observed = after.username]
    ELSE after

\* The user types into the username field
RpSetUsername(value) ==
    /\ value # repositoriesPage.username
    /\ repositoriesPage' = [repositoriesPage EXCEPT !.username = value]
    /\ UNCHANGED <<handler, served, leaderboardsPage, homePage, progressiveHome>>

\* handleSubmit; the submit button is disabled while loading
RpHandleSubmit ==
    /\ ~repositoriesPage.loading
    /\ repositoriesPage.submits < MaxSubmits
    /\ repositoriesPage' =
          RpObserverEffect(
              repositoriesPage,
              loadRepositoriesStarted(
                  [repositoriesPage EXCEPT !.repositories = <<>>,
                                           !.currentPage = 1,
                                           !.hasMore = TRUE,
                                           !.allLanguages = {},
                                           !.submits = @ + 1,
                                           !.requested = <<>>,
                                           !.loaded = <<>>],
                  repositoriesPage.username, 1),
              TRUE)
    /\ UNCHANGED <<handler, served, leaderboardsPage, homePage, progressiveHome>>

\* loadMore, called by the intersection observer, which exists only while
\* repositories is not empty: the loadMore of the render that created the
\* observer, with the username of that render
RpLoadMore ==
    /\ repositoriesPage.repositories # <<>>
    /\ ~repositoriesPage.loading
    /\ repositoriesPage.hasMore
    /\ repositoriesPage.currentPage <= MaxPage
    /\ repositoriesPage' =
          RpObserverEffect(
              repositoriesPage,
              loadRepositoriesStarted(repositoriesPage, repositoriesPage.observed,
                                      repositoriesPage.currentPage),
              FALSE)
    /\ UNCHANGED <<handler, served, leaderboardsPage, homePage, progressiveHome>>

\* The fetch of a request in flight resolves and loadRepositories runs to
\* its end
RpFetchSettled ==
    /\ \E req \in BagToSet(repositoriesPage.inFlight) :
         \E answer \in RepositoriesAnswers(req.username, req.page) :
            repositoriesPage' =
                RpObserverEffect(
                    repositoriesPage,
                    loadRepositoriesSettled(
                        [repositoriesPage EXCEPT !.inFlight = @ (-) SetToBag({req})],
                        req.page, answer),
                    answer.status = 200)
    /\ UNCHANGED <<handler, served, leaderboardsPage, homePage, progressiveHome>>

\* Usernames typed into the page
RpUsernames == {"", Username, "alice"}

NextRepositories ==
    \/ \E value \in RpUsernames : RpSetUsername(value)
    \/ RpHandleSubmit
    \/ RpLoadMore
    \/ RpFetchSettled

\* The page as mounted with ?username=.. in the URL: the effect has set the
\* username and called loadRepositories(usernameParam)
RepositoriesPageMountedWith(usernameParam) ==
    RpObserverEffect(
        RepositoriesPageMounted,
        loadRepositoriesStarted(
            [RepositoriesPageMounted EXCEPT !.username = usernameParam],
            usernameParam, 1),
        FALSE)

\* GitHub holds some number of repositories for the queried user and one
\* more than a page for another user
InitRepositoriesPage ==
    /\ \E count \in RepoCounts :
          ghUsers = [login \in {Username, "alice"} |->
                        GitHubUser(login, <<Day("2024-01-01", 1)>>,
                                   IF login = Username THEN RepoListOf(count, 1)
                                   ELSE RepoListOf(PER_PAGE + 1, 2),
                                   0, 0)]
    /\ ghFollowers = <<>>
    /\ ghFollowing = <<>>
    /\ request = ProgRequest("repositories", 1)
    /\ Fresh
    /\ served = <<>>
    /\ arrivedDuring = 0
    /\ leaderboardsPage = LeaderboardsPageMounted
    /\ homePage = HomePageMounted
    /\ progressiveHome = ProgressiveHomeMounted
    /\ repositoriesPage \in {RepositoriesPageMounted,
                             RepositoriesPageMountedWith(Username)}

SpecRepositories == InitRepositoriesPage /\ [][NextRepositories]_vars

---------------------------------------------------------------------------
(* The home page with the repository list: the second Home of page.tsx,
   which loads the basic stats first and then the contributions, the first
   page of repositories and the network, and further pages of repositories
   on scrolling *)

\* What the fetch of /api/stats?username=..&loadType=..&page=.. may resolve
\* to; GitHub lists no follower and no following for the users of the model
ProgressiveAnswers(type, searchUsername, page) ==
    IF IsFalsy(searchUsername)
    THEN {[status |-> 400, error |-> "Username is required"]}
    ELSE
    (IF searchUsername \notin DOMAIN ghUsers THEN {}
     ELSE IF type = "initial"
     THEN {InitialResponse(ghUsers[searchUsername],
                           PageOf(ghUsers[searchUsername].repositories, 1,
                                  INITIAL_PER_PAGE))}
     ELSE IF type = "contributions"
     THEN {ContributionsResponse(ghUsers[searchUsername])}
     ELSE IF type = "repositories"
     THEN {ProgRepositoriesAnswer(searchUsername, page)}
     ELSE {NetworkResponse(<<>>, <<>>, page)})
    \cup {FailureResponse(message, "Failed to fetch GitHub stats") :
             message \in ErrorMessages}

\* loadData(type, page) up to the fetch, for the username of the render whose
\* closure runs
progressiveLoadStarted(state, type, page, searchUsername, submit) ==
    [state EXCEPT !.loading[type] = TRUE,
                  !.error = "",
                  !.inFlight = @ (+) SetToBag({[type |-> type, username |-> searchUsername,
                                        page |-> page, submit |-> submit]}),
                  !.requested = IF type = "repositories" THEN Append(@, page) ELSE @]

\* loadData from the answer of the fetch to the end of finally
progressiveLoadSettled(state, req, answer) ==
    LET done == [state EXCEPT !.loading[req.type] = FALSE]
    IN  IF answer.status # 200
        THEN [done EXCEPT !.error = IF answer.error = "" THEN "Failed to fetch stats"
                                    ELSE answer.error,
                          !.requested = IF /\ req.type = "repositories"
                                           /\ req.submit = state.submits
                                        THEN WithoutLast(@, req.page) ELSE @]
        ELSE IF req.type = "initial"
        THEN progressiveLoadStarted(
                 progressiveLoadStarted(
                     progressiveLoadStarted(
                         [done EXCEPT !.basicStats = answer.body],
                         "contributions", 1, req.username, req.submit),
                     "repositories", 1, req.username, req.submit),
                 "network", 1, req.username, req.submit)
        ELSE IF req.type = "contributions"
        THEN [done EXCEPT !.contributions = answer.body.calendarData]
        ELSE IF req.type = "repositories"
        THEN [done EXCEPT
                !.repositories = IF req.page = 1 THEN answer.body.repositories
                                 ELSE @ \o answer.body.repositories,
                !.hasMore = answer.body.hasMore,
                !.currentPage = answer.body.nextPage,
                !.loaded = Append(@, [page |-> req.page,
                                      repositories |-> answer.body.repositories])]
        ELSE [done EXCEPT !.networkStats = answer.body.networkStats]

\* useEffect(..., [repositories, hasMore, loading.repositories]): the
\* observer calls the loadMoreRepositories of the render in which the effect
\* last ran, whose loadData sends the username of that render
PhObserverEffect(before, after, listSet) ==
    IF \/ listSet
       \/ before.hasMore # after.hasMore
       \/ before.loading.repositories # after.loading.repositories
    THEN [after EXCEPT !.observed = after.username]
    ELSE after

\* The user types into the username field
PhSetUsername(value) ==
    /\ value # progressiveHome.username
    /\ progressiveHome' = [progressiveHome EXCEPT !.username = value]
    /\ UNCHANGED <<handler, served, leaderboardsPage, homePage, repositoriesPage>>

\* handleSubmit; the submit button is disabled while loading.initial
PhHandleSubmit ==
    /\ ~progressiveHome.loading.initial
    /\ progressiveHome.submits < MaxSubmits
    /\ progressiveHome' =
          PhObserverEffect(
              progressiveHome,
              progressiveLoadStarted(
                  [progressiveHome EXCEPT !.basicStats = JsNull,
                                          !.contributions = JsNull,
                                          !.repositories = <<>>,
                                          !.networkStats = JsNull,
                                          !.currentPage = 1,
                                          !.hasMore = TRUE,
                                          !.submits = @ + 1,
                                          !.requested = <<>>,
                                          !.loaded = <<>>],
                  "initial", 1, progressiveHome.username,
                  progressiveHome.submits + 1),
              TRUE)
    /\ UNCHANGED <<handler, served, leaderboardsPage, homePage, repositoriesPage>>

\* loadMoreRepositories, called by the intersection observer on the trigger
\* element, which is rendered while basicStats is set and repositories is
\* not empty: the loadMoreRepositories of the render that created the
\* observer, with the username of that render
PhLoadMoreRepositories ==
    /\ progressiveHome.basicStats # JsNull
    /\ progressiveHome.repositories # <<>>
    /\ ~progressiveHome.loading.repositories
    /\ progressiveHome.hasMore
    /\ progressiveHome.currentPage <= MaxPage
    /\ progressiveHome' =
          PhObserverEffect(
              progressiveHome,
              progressiveLoadStarted(progressiveHome, "repositories",
                                     progressiveHome.currentPage,
                                     progressiveHome.observed,
                                     progressiveHome.submits),
              FALSE)
    /\ UNCHANGED <<handler, served, leaderboardsPage, homePage, repositoriesPage>>

\* The fetch of a request in flight resolves and loadData runs to its end
PhFetchSettled ==
    /\ \E req \in BagToSet(progressiveHome.inFlight) :
         \E answer \in ProgressiveAnswers(req.type, req.username, req.page) :
            progressiveHome' =
                PhObserverEffect(
                    progressiveHome,
                    progressiveLoadSettled(
                        [progressiveHome EXCEPT !.inFlight = @ (-) SetToBag({req})],
                        req, answer),
                    req.type = "repositories" /\ answer.status = 200)
    /\ UNCHANGED <<handler, served, leaderboardsPage, homePage, repositoriesPage>>

NextProgressiveHome ==
    \/ \E value \in {Username, "alice"} : PhSetUsername(value)
    \/ PhHandleSubmit
    \/ PhLoadMoreRepositories
    \/ PhFetchSettled

\* GitHub holds two pages of repositories for the queried user and knows no
\* user of the other name typed, so every request about that name fails.
\* The host is in UTC: no state of this page depends on the time zone.
InitProgressiveHome ==
    /\ ghUsers = [login \in {Username} |->
                     GitHubUser(login, <<Day("2024-01-01", 1)>>,
                                RepoListOf(2 * PER_PAGE, 1), 0, 0)]
    /\ ghFollowers = <<>>
    /\ ghFollowing = <<>>
    /\ request = ProgRequest("initial", 1)
    /\ FreshIn("UTC")
    /\ served = <<>>
    /\ arrivedDuring = 0
    /\ leaderboardsPage = LeaderboardsPageMounted
    /\ homePage = HomePageMounted
    /\ repositoriesPage = RepositoriesPageMounted
    /\ progressiveHome = ProgressiveHomeMounted

SpecProgressiveHome == InitProgressiveHome /\ [][NextProgressiveHome]_vars

---------------------------------------------------------------------------
(* C23 *)

\* The concatenation of the pages applied, in the order they were applied
RECURSIVE ConcatPages(_)
ConcatPages(loaded) ==
    IF loaded = <<>> THEN <<>>
    ELSE ConcatPages(Front(loaded)) \o Last(loaded).repositories

\* Since the last submit the pages requested are 1, 2, 3, ... (a page being
\* requested again only after its request failed), the pages applied are
\* 1, 2, 3, ... and the list is their concatenation
PagedInOrder(state) ==
    /\ state.requested = [i \in 1..Len(state.requested) |-> i]
    /\ [i \in 1..Len(state.loaded) |-> state.loaded[i].page]
          = [i \in 1..Len(state.loaded) |-> i]
    /\ Len(state.requested) \in {Len(state.loaded), Len(state.loaded) + 1}
    /\ state.repositories = ConcatPages(state.loaded)

\* A step in which a page load of the state fails leaves the list,
\* currentPage and hasMore as they are
FailedLoadChangesNothing(before, after, isPageLoad(_)) ==
    (/\ \E req \in BagToSet(before.inFlight (-) after.inFlight) : isPageLoad(req)
     /\ after.loaded = before.loaded)
        => /\ after.repositories = before.repositories
           /\ after.currentPage = before.currentPage
           /\ after.hasMore = before.hasMore

AnyRequest(req) == TRUE

IsRepositoriesRequest(req) == req.type = "repositories"

\* C23: in the repository browser (the repositories page and the repository
\* list of the home page) the pages requested between two submits are 1, 2,
\* 3, ... in order, none skipped and none that was loaded requested again;
\* the list is the concatenation in page order of the pages loaded so far;
\* and a failed page load leaves the list, currentPage and hasMore unchanged.
C23_PagesInOrder ==
    /\ [](PagedInOrder(repositoriesPage) /\ PagedInOrder(progressiveHome))
    /\ [][/\ FailedLoadChangesNothing(repositoriesPage, repositoriesPage',
                                      AnyRequest)
          /\ FailedLoadChangesNothing(progressiveHome, progressiveHome',
                                      IsRepositoriesRequest)]_vars

\* It holds of the repositories page
C23_RepositoriesPageInOrder ==
    /\ []PagedInOrder(repositoriesPage)
    /\ [][FailedLoadChangesNothing(repositoriesPage, repositoriesPage',
                                   AnyRequest)]_vars

\* The repositories page has loaded both pages of a user with one
\* repository more than a page
C23_RepositoriesPageLoaded ==
    /\ Len(repositoriesPage.loaded) = 2
    /\ Len(repositoriesPage.repositories) = PER_PAGE + 1
    /\ repositoriesPage.error = ""
    /\ repositoriesPage.currentPage = 3

\* On the home page a response to a request of the first submit was applied
\* after the second submit: page 2 is in the list without page 1
C23_StalePage ==
    /\ progressiveHome.submits = 2
    /\ progressiveHome.loaded # <<>>
    /\ progressiveHome.loaded[1].page = 2


\* On the home page page 3 was requested right after page 1, while the
\* request of page 1 is still unanswered
C23_PageSkipped ==
    /\ progressiveHome.requested = <<1, 3>>
    /\ \E req \in BagToSet(progressiveHome.inFlight) :
          req.type = "repositories" /\ req.page = 1 /\ req.submit = 2

---------------------------------------------------------------------------
(* C24 *)

\* The fetch of a request in flight resolves with the page asked for
RpFetchSucceeded ==
    /\ \E req \in BagToSet(repositoriesPage.inFlight) :
         /\ req.username \in DOMAIN ghUsers
         /\ repositoriesPage' =
               RpObserverEffect(
                   repositoriesPage,
                   loadRepositoriesSettled(
                       [repositoriesPage EXCEPT !.inFlight = @ (-) SetToBag({req})],
                       req.page, ProgRepositoriesAnswer(req.username, req.page)),
                   TRUE)
    /\ UNCHANGED <<handler, served, leaderboardsPage, homePage, progressiveHome>>

\* The repositories page opened with the username of a GitHub user in the
\* URL, used with usernames of GitHub users only, every fetch succeeding
NextRepositoriesSucceeding ==
    \/ \E value \in DOMAIN ghUsers : RpSetUsername(value)
    \/ RpHandleSubmit
    \/ RpLoadMore
    \/ RpFetchSucceeded

InitRepositoriesSucceeding ==
    /\ InitRepositoriesPage
    /\ repositoriesPage = RepositoriesPageMountedWith(Username)

\* Every fetch is answered, and the intersection observer calls loadMore
\* whenever the trigger element is in view and loadMore would send a request
SpecRepositoriesSucceeding ==
    /\ InitRepositoriesSucceeding
    /\ [][NextRepositoriesSucceeding]_vars
    /\ WF_vars(RpFetchSucceeded)
    /\ WF_vars(RpLoadMore)

\* C24: with every fetch succeeding and load-more triggered again and again,
\* hasMore becomes false whenever it is true; while hasMore is false no page
\* is requested except by a submit; and each response applied sets hasMore
\* to whether the page it brought holds exactly PER_PAGE repositories.
C24_LoadMoreTerminates ==
    /\ repositoriesPage.hasMore ~> ~repositoriesPage.hasMore
    /\ [][/\ (/\ ~repositoriesPage.hasMore
              /\ repositoriesPage'.inFlight (-) repositoriesPage.inFlight # EmptyBag)
                 => repositoriesPage'.submits = repositoriesPage.submits + 1
          /\ repositoriesPage'.loaded # repositoriesPage.loaded
             /\ repositoriesPage'.loaded # <<>>
                 => repositoriesPage'.hasMore =
                       (Len(Last(repositoriesPage'.loaded).repositories) = PER_PAGE)
       ]_vars

\* The safety part, for the page with failing fetches as well
C24_NoRequestWithoutMore ==
    [][(/\ ~repositoriesPage.hasMore
        /\ repositoriesPage'.inFlight (-) repositoriesPage.inFlight # EmptyBag)
           => repositoriesPage'.submits = repositoriesPage.submits + 1]_vars

\* Two full pages and then an empty third one were loaded: hasMore is false
C24_Witness ==
    /\ ~repositoriesPage.hasMore
    /\ Len(repositoriesPage.loaded) = 3
    /\ Len(repositoriesPage.repositories) = 2 * PER_PAGE
    /\ repositoriesPage.loaded[3].repositories = <<>>
    /\ repositoriesPage.inFlight = EmptyBag

\* A user without repositories: the first page sets hasMore to false
C24_WitnessEmpty ==
    /\ ~repositoriesPage.hasMore
    /\ Len(repositoriesPage.loaded) = 1
    /\ repositoriesPage.repositories = <<>>

---------------------------------------------------------------------------
(* C25 *)

\* The concatenation of the pages of users applied, in the order applied
RECURSIVE ConcatUsers(_)
ConcatUsers(loaded) ==
    IF loaded = <<>> THEN <<>>
    ELSE ConcatUsers(Front(loaded)) \o Last(loaded).users

\* C25: on the leaderboards page, once the first page of a search is shown
\* and no fetch is outstanding, networkUsers is the concatenation in order of
\* the pages 1..currentPage, none missing and none repeated, whatever
\* searches, load-more triggers and fetch failures came before.
C25_PagesOneToCurrentPage ==
    (leaderboardsPage.networkUsers # <<>> /\ ~leaderboardsPage.loading) =>
        /\ [i \in 1..Len(leaderboardsPage.loaded) |-> leaderboardsPage.loaded[i].page]
              = [i \in 1..leaderboardsPage.currentPage |-> i]
        /\ leaderboardsPage.networkUsers = ConcatUsers(leaderboardsPage.loaded)

\* What does hold: the list is the concatenation of the pages applied, whose
\* numbers increase and end at or before currentPage
C25_ListIsThePagesApplied ==
    /\ leaderboardsPage.networkUsers = ConcatUsers(leaderboardsPage.loaded)
    /\ \A i \in 1..Len(leaderboardsPage.loaded) :
          /\ leaderboardsPage.loaded[i].page <= leaderboardsPage.currentPage
          /\ i > 1 => leaderboardsPage.loaded[i - 1].page
                         < leaderboardsPage.loaded[i].page

\* Page 2 failed and page 3 was requested and applied after page 1: the
\* list lacks page 2 for good, hasMore being false
C25_PageSkipped ==
    /\ Len(leaderboardsPage.loaded) = 2
    /\ leaderboardsPage.loaded[1].page = 1
    /\ leaderboardsPage.loaded[2].page = 3
    /\ Len(leaderboardsPage.networkUsers) < leaderboardsPage.networkStats.totalUsers
    /\ ~leaderboardsPage.hasMore
    /\ ~leaderboardsPage.loading

---------------------------------------------------------------------------
(* C26 *)

\* The page fetches of the home page that are not yet answered
RepositoryFetches ==
    LET fetches == {req \in BagToSet(progressiveHome.inFlight) :
                       req.type = "repositories"}
    IN  [req \in fetches |-> progressiveHome.inFlight[req]]

\* C26: on each of the paginated pages (the leaderboards page, the
\* repositories page, the repository list of the home page) at most one page
\* fetch is in flight at any time, and the loading flag that guards
\* load-more is true while one is.
C26_OnePageFetchInFlight ==
    /\ BagCardinality(leaderboardsPage.inFlight) <= 1
    /\ leaderboardsPage.loading = (leaderboardsPage.inFlight # EmptyBag)
    /\ BagCardinality(repositoriesPage.inFlight) <= 1
    /\ repositoriesPage.loading = (repositoriesPage.inFlight # EmptyBag)
    /\ BagCardinality(RepositoryFetches) <= 1
    /\ progressiveHome.loading.repositories = (RepositoryFetches # EmptyBag)

\* It holds of the leaderboards page, where no page is applied twice
C26_LeaderboardsOneInFlight ==
    /\ BagCardinality(leaderboardsPage.inFlight) <= 1
    /\ leaderboardsPage.loading = (leaderboardsPage.inFlight # EmptyBag)
    /\ \A i, j \in 1..Len(leaderboardsPage.loaded) :
          leaderboardsPage.loaded[i].page = leaderboardsPage.loaded[j].page => i = j

\* and of the repositories page
C26_RepositoriesOneInFlight ==
    /\ BagCardinality(repositoriesPage.inFlight) <= 1
    /\ repositoriesPage.loading = (repositoriesPage.inFlight # EmptyBag)
    /\ \A i, j \in 1..Len(repositoriesPage.loaded) :
          repositoriesPage.loaded[i].page = repositoriesPage.loaded[j].page => i = j

\* On the home page loadMoreRepositories has sent a request while the page 1
\* request of the same submit was unanswered: loading.repositories was false
C26_LoadMoreDuringLoad ==
    \E first, more \in BagToSet(RepositoryFetches) :
        /\ first.submit = progressiveHome.submits
        /\ more.submit = progressiveHome.submits
        /\ first.page = 1
        /\ more.page > 1

\* On the home page the same request for page 2 is outstanding twice
C26_SameRequestTwice ==
    \E req \in BagToSet(RepositoryFetches) :
        /\ req.page = 2
        /\ RepositoryFetches[req] = 2

\* and page 2 was appended twice after page 1: 90 repositories of a user
\* who has 60
C26_PageTwoTwice ==
    /\ Len(progressiveHome.loaded) = 3
    /\ progressiveHome.loaded[1].page = 1
    /\ progressiveHome.loaded[2].page = 2
    /\ progressiveHome.loaded[3].page = 2
    /\ Len(progressiveHome.repositories) = 3 * PER_PAGE

\* On the home page the same page was appended twice: the list shows a
\* repository twice
C26_AppendedTwice ==
    \E i, j \in 1..Len(progressiveHome.repositories) :
        /\ i < j
        /\ progressiveHome.repositories[i] = progressiveHome.repositories[j]

---------------------------------------------------------------------------
(* Paging through the network load of the progressive route *)

\* What a caller can be answered for a page of the network load: the
\* response built when both listings and every getByUsername of the page
\* resolve, whatever the order, or the 500 of the catch block with the
\* message of the fetch that rejected
ProgNetworkPageAnswers(page) ==
    {ProgNetworkAnswer(page)}
    \cup {FailureResponse(message, "Failed to fetch GitHub stats") :
             message \in ErrorMessages}

\* The handler run with its per-login queries settling one by one in any
\* order (Spec) answers a request for a page of the network load with one
\* of these answers
HandlerAnswersAsCallerSees ==
    (/\ pc = "done"
     /\ IsProgressive
     /\ request.loadType = "network"
     /\ ~IsFalsy(request.username))
        => response \in ProgNetworkPageAnswers(request.page)

\* With each query settling under its own index (Spec), the count is the
\* number of result slots filled by a fulfilled query
FulfilledCountsSlots ==
    (IsProgressive /\ pc = "awaitNetwork") =>
        networkFulfilled = Cardinality({i \in 1..Len(networkUsersData) :
                                          networkUsersData[i].state = "ok"})

\* One of the getByUsername queries still outstanding settles, whichever it
\* is.  The handler awaits Promise.all and sees nothing of the queries
\* until the last of them fulfils, when networkUsersData is bound to the
\* results in the order of the logins, or until one rejects, which rejects
\* the Promise.all and takes the handler to its catch block.  With up to
\* PER_PAGE queries outstanding the state keeps how many have fulfilled and
\* not which: the history entry carries index 0.  Every login GitHub lists
\* is a user it knows, so whichever query settles can fulfil.
ProgNetworkSomeUserFetched ==
    /\ pc = "awaitNetwork"
    /\ IsProgressive
    /\ networkFulfilled < Len(networkLogins)
    /\ \/ /\ \A i \in 1..Len(networkLogins) : networkLogins[i] \in DOMAIN ghUsers
          /\ networkFulfilled' = networkFulfilled + 1
          /\ networkUsersData' =
                IF networkFulfilled' = Len(networkLogins)
                THEN [i \in 1..Len(networkLogins) |->
                         Fulfilled(NetworkStat(ghUsers[networkLogins[i]]))]
                ELSE networkUsersData
          /\ fetchLog' = Append(fetchLog, Settled("network", 0, TRUE))
          /\ UNCHANGED <<pc, response>>
       \/ \E message \in ErrorMessages :
            /\ response' = FailureResponse(message, "Failed to fetch GitHub stats")
            /\ fetchLog' = Append(fetchLog, Rejected("network", 0, message))
            /\ pc' = "done"
            /\ UNCHANGED <<networkFulfilled, networkUsersData>>
    /\ UNCHANGED <<rest, reposResponse, repoStats, ghUsers, ghFollowers,
                   ghFollowing, request, userData, followersResponse,
                   followingResponse, networkLogins>>

\* The client asks for the page the response announced, as long as hasMore
\* is true
NextNetworkPage ==
    /\ pc = "done"
    /\ response.status = 200
    /\ response.body.hasMore
    /\ request.page < MaxPage
    /\ served' = Append(served, Invocation)
    /\ Runs(Entered([request EXCEPT !.page = response.body.nextPage], 0))
    /\ UNCHANGED <<ghUsers, ghFollowers, ghFollowing, leaderboardsPage, homePage,
                   repositoriesPage, progressiveHome, hostTimeZone>>

\* The handler of the page, await by await, and the client's next request
NextNetworkPaging ==
    \/ ProgReceive
    \/ ProgFollowersFetched
    \/ ProgFollowingFetched
    \/ ProgListsSettled
    \/ ProgNetworkSomeUserFetched
    \/ ProgNetworkRespond
    \/ NextNetworkPage

\* Lengths of a follower or following list around the page size
FollowCounts == {0, 1, PER_PAGE - 1, PER_PAGE, PER_PAGE + 1, 2 * PER_PAGE}

\* The logins first..last
LoginsFrom(first, last) == [i \in 1..(last - first + 1) |-> <<"user", first + i - 1>>]

\* GitHub lists some number of followers and some number of followed users,
\* who are either none of the followers or, as far as they go, the same
\* users in the same order
InitNetworkPaging ==
    /\ ghUsers = [login \in Range(LoginsFrom(1, 4 * PER_PAGE)) |->
                     GitHubUser(login, <<>>, <<>>, 1, 1)]
    /\ \E followers \in FollowCounts, following \in FollowCounts,
          mutual \in BOOLEAN :
          /\ ghFollowers = LoginsFrom(1, followers)
          /\ ghFollowing = IF mutual THEN LoginsFrom(1, following)
                           ELSE LoginsFrom(2 * PER_PAGE + 1, 2 * PER_PAGE + following)
    /\ request = ProgRequest("network", 1)
    /\ Fresh
    /\ Unused

SpecNetworkPaging == InitNetworkPaging /\ [][NextNetworkPaging]_vars

---------------------------------------------------------------------------
(* C27 *)

\* The logins the responses so far have returned
ReturnedLogins(answers) ==
    UNION { {answers[i].response.body.networkStats[j].username :
                j \in 1..Len(answers[i].response.body.networkStats)} :
            i \in 1..Len(answers) }

\* The paging has come to its end: the last response says hasMore false
PagingEnded ==
    /\ pc = "done"
    /\ response.status = 200
    /\ ~response.body.hasMore

\* C27: when paging through loadType=network from page 1 ends with hasMore
\* false, every login GitHub lists as a follower or as a following of the
\* user was returned on some page, and neither list has an entry beyond the
\* pages fetched.
C27_EveryLoginReturned ==
    PagingEnded =>
        /\ Range(ghFollowers) \cup Range(ghFollowing)
              \subseteq ReturnedLogins(Append(served, Invocation))
        /\ Len(ghFollowers) <= request.page * PER_PAGE
        /\ Len(ghFollowing) <= request.page * PER_PAGE

\* What each page does return: the first PER_PAGE distinct logins of this
\* page of the followers followed by this page of the following
C27_FirstThirtyOfThePage ==
    (pc = "done" /\ response.status = 200) =>
        /\ [i \in 1..Len(response.body.networkStats) |->
               response.body.networkStats[i].username]
              = Take(RemoveDuplicates(PageOf(ghFollowers, request.page, PER_PAGE)
                                      \o PageOf(ghFollowing, request.page, PER_PAGE)),
                     PER_PAGE)
        /\ response.body.hasMore =
              (Cardinality(Range(PageOf(ghFollowers, request.page, PER_PAGE))
                           \cup Range(PageOf(ghFollowing, request.page, PER_PAGE)))
                  > PER_PAGE)

\* A user with 31 followers and no following: page 1 says hasMore false
C27_FollowerLeftOut ==
    /\ PagingEnded
    /\ request.page = 1
    /\ Len(ghFollowers) = PER_PAGE + 1
    /\ ghFollowing = <<>>
    /\ Last(ghFollowers) \notin ReturnedLogins(<<Invocation>>)

\* A user with 30 followers and 30 others followed: page 1 returns the
\* followers and says hasMore true, page 2 is empty, and no followed user
\* was returned
C27_FollowingNeverReturned ==
    /\ PagingEnded
    /\ request.page = 2
    /\ Len(ghFollowers) = PER_PAGE
    /\ Len(ghFollowing) = PER_PAGE
    /\ ReturnedLogins(Append(served, Invocation)) = Range(ghFollowers)
    /\ Range(ghFollowing) \cap Range(ghFollowers) = {}

---------------------------------------------------------------------------
(* C28 *)

\* The usernames of a leaderboard of the response, in its order
BoardUsernames(b) ==
    [i \in 1..Len(response.body.leaderboards[b]) |->
        response.body.leaderboards[b][i].username]

\* The logins of the fetched follower and following listings whose data
\* query did not fail
FetchedMembers ==
    {login \in Range(followersResponse.data) \cup Range(followingResponse.data) :
        \A j \in 1..Len(networkLogins) :
            networkLogins[j] = login => ~FetchFailed("network", j)}

\* C28: the three leaderboards of a successful response of the stats route
\* list the same set of usernames, the queried user and every distinct login
\* of the fetched followers and following whose data query succeeded; no
\* username is listed twice in a leaderboard, and the queried user is listed
\* exactly once in each.
C28_SameUsernamesInEveryBoard ==
    FullSucceeded =>
        \A b \in Boards :
            /\ Range(BoardUsernames(b)) = {request.username} \cup FetchedMembers
            /\ \A i, j \in 1..Len(BoardUsernames(b)) :
                  BoardUsernames(b)[i] = BoardUsernames(b)[j] => i = j
            /\ Cardinality({i \in 1..Len(BoardUsernames(b)) :
                               BoardUsernames(b)[i] = request.username}) = 1
            /\ \A c \in Boards : Range(BoardUsernames(c)) = Range(BoardUsernames(b))

\* Two users are each both a follower and followed, every query succeeded:
\* each board lists three usernames, in different orders
C28_Witness ==
    /\ FullSucceeded
    /\ Len(ghFollowers) = 2
    /\ Range(ghFollowing) = Range(ghFollowers)
    /\ \A i \in 1..Len(fetchLog) : fetchLog[i].ok
    /\ Len(BoardUsernames("commits")) = 3
    /\ BoardUsernames("commits") # BoardUsernames("streak")

\* The query of a member that is both a follower and followed failed: the
\* boards list the queried user and the other member
C28_WitnessFailed ==
    /\ FullSucceeded
    /\ Len(ghFollowers) = 2
    /\ Range(ghFollowing) = Range(ghFollowers)
    /\ \E j \in 1..Len(networkLogins) : FetchFailed("network", j)
    /\ Len(BoardUsernames("stars")) = 2

====
